---------------------------- MODULE Spec2Model ----------------------------
(***************************************************************************)
(* A model of the viral-scoring and keyword-extraction code of the         *)
(* YouTube viral analyzer (src/viral_analyzer.py, src/keyword_analyzer.py, *)
(* src/config.py).                                                         *)
(*                                                                         *)
(* Numbers.  The Python code computes with binary floating point.  The     *)
(* model computes with exact rationals <<n, d>> (d > 0, lowest terms), so  *)
(* every value below is the value the code's formula denotes; the          *)
(* representation error of a float (about 1e-16 relative) is not           *)
(* modelled.  round(x, k) is modelled as rounding the exact value to k     *)
(* decimals, ties to even.                                                 *)
(*                                                                         *)
(* Time.  Instants are counted in ticks, TicksPerDay ticks to a day.       *)
(***************************************************************************)
EXTENDS Integers, Sequences, FiniteSets, TLC

VARIABLES
    thresholds,   \* ViralAnalyzer.thresholds
    video,        \* the video record handed to the scorer
    channel,      \* the channel record handed to the scorer (or None)
    now,          \* the wall clock read by datetime.now()
    call,         \* the last scorer call: its operation, outcome and result
    prev,         \* metrics and sub-scores of the analysis made before the
                  \* record's statistics last changed
    nltk,         \* the NLTK library, as the module's import found it
    konlpy,       \* the KoNLPy library, as the module's import found it
    kwa,          \* the KeywordAnalyzer's attributes
    request,      \* the text, language and max_keywords under test
    kwCall,       \* the last extract_keywords_from_text call
    kwLog,        \* every (request, answer) pair the extractor has given
    videos,       \* the batch handed to analyze_video_keywords
    analysis,     \* the last analyze_video_keywords call and its result
    videos_df,    \* the caller's DataFrame handed to analyze_trends
    trends,       \* the last analyze_trends call and its result
    config_thresholds, \* the dict config.VIRAL_THRESHOLDS names
    analyzers,    \* the ViralAnalyzer instances created so far
    change,       \* the last change of an instance's thresholds
    scored,       \* the last score an instance produced
    search_results,     \* st.session_state.search_results
    analysis_results,   \* st.session_state.analysis_results
    last_search_params, \* st.session_state.last_search_params
    current_order,      \* st.session_state.current_order
    run,          \* the last run of the dashboard script
    paging        \* a search_videos call: its arguments, locals and position

scorerVars == <<thresholds, video, channel, now, call, prev>>

keywordVars == <<nltk, konlpy, kwa, request, kwCall, kwLog>>

batchVars == <<videos, analysis>>

trendVars == <<videos_df, trends>>

instanceVars == <<config_thresholds, analyzers, change, scored>>

sessionVars ==
    <<search_results, analysis_results, last_search_params, current_order,
      run>>

appVars == <<instanceVars, sessionVars, paging>>

vars == <<scorerVars, keywordVars, batchVars, trendVars, appVars>>

-----------------------------------------------------------------------------
(* Bounds of the model.                                                    *)

\* Ticks of the model clock per day.
TicksPerDay == 2

\* The clock starts at 2 * TicksPerDay and stops at MaxTime; publication
\* instants range over 0 .. MaxTime.
MaxTime == 5

-----------------------------------------------------------------------------
(* Exact rational arithmetic.                                              *)

Abs(n) == IF n < 0 THEN -n ELSE n

RECURSIVE GCD(_, _)
GCD(a, b) == IF b = 0 THEN a ELSE GCD(b, a % b)

\* n / d in lowest terms, d > 0.
Rat(n, d) ==
    LET g == GCD(Abs(n), d)
    IN  <<n \div g, d \div g>>

RInt(n) == <<n, 1>>

RAdd(a, b) ==
    LET g == GCD(a[2], b[2])
        l == (a[2] \div g) * b[2]
    IN  Rat(a[1] * (l \div a[2]) + b[1] * (l \div b[2]), l)

RNeg(a) == <<-a[1], a[2]>>

RSub(a, b) == RAdd(a, RNeg(b))

RMul(a, b) ==
    LET g1 == GCD(Abs(a[1]), b[2])
        g2 == GCD(Abs(b[1]), a[2])
    IN  <<(a[1] \div g1) * (b[1] \div g2), (a[2] \div g2) * (b[2] \div g1)>>

\* b # 0
RInv(b) == IF b[1] < 0 THEN <<-b[2], -b[1]>> ELSE <<b[2], b[1]>>

RDiv(a, b) == RMul(a, RInv(b))

\* a <= b: by the integer parts, then by the fractional parts (the products
\* of the remainders stay small where those of the numerators would not).
RLe(a, b) ==
    LET ia == a[1] \div a[2]
        ib == b[1] \div b[2]
    IN  \/ ia < ib
        \/ ia = ib /\ (a[1] % a[2]) * b[2] <= (b[1] % b[2]) * a[2]

RLt(a, b) == ~RLe(b, a)

\* Two rationals are the same number.
REq(a, b) == RLe(a, b) /\ RLe(b, a)

\* The elements of a sequence.
Range(seq) == {seq[k] : k \in 1 .. Len(seq)}

RMin(a, b) == IF RLe(a, b) THEN a ELSE b

RMax(a, b) == IF RLe(a, b) THEN b ELSE a

RECURSIVE Pow10(_)
Pow10(k) == IF k = 0 THEN 1 ELSE 10 * Pow10(k - 1)

\* Python's round(x, k) for x >= 0 and k >= 0: the multiple of 10^-k nearest to
\* x, a tie going to the even multiple.  The integer part is kept apart so
\* that the scaled fraction stays small.
Round(x, k) ==
    LET scale == Pow10(k)
        ip    == x[1] \div x[2]
        fr    == x[1] % x[2]
        q     == (fr * scale) \div x[2]
        r     == (fr * scale) % x[2]
        even  == IF k = 0 THEN ip % 2 = 0 ELSE q % 2 = 0
        up    == (2 * r > x[2]) \/ (2 * r = x[2] /\ ~even)
    IN  RAdd(RInt(ip), Rat(IF up THEN q + 1 ELSE q, scale))

-----------------------------------------------------------------------------
(* config.VIRAL_THRESHOLDS                                                 *)

\* A variant with a views_per_day threshold above 24 x 1000 views.
VIRAL_THRESHOLDS_ViewsPerDay50000 ==
    [ views_per_day    |-> RInt(50000),
      like_ratio       |-> Rat(2, 100),
      comment_ratio    |-> Rat(1, 1000),
      engagement_score |-> RInt(50) ]

VIRAL_THRESHOLDS ==
    [ views_per_day    |-> RInt(10000),
      like_ratio       |-> Rat(2, 100),
      comment_ratio    |-> Rat(1, 1000),
      engagement_score |-> RInt(50) ]

-----------------------------------------------------------------------------
(* Python values.                                                          *)

\* None; a dict is a function from its keys.
None == [py_none |-> TRUE]

IsNone(x) == "py_none" \in DOMAIN x

EmptyDict == [k \in {} |-> 0]

\* bool(x) of None or of a dict
Truthy(x) == ~IsNone(x) /\ DOMAIN x # {}

\* dict.get(key, default)
Get(d, key, default) == IF key \in DOMAIN d THEN d[key] ELSE default

-----------------------------------------------------------------------------
(* Timestamps.  A published_at text is its form and the wall-clock instant *)
(* it writes: "iso_z" is 2024-01-01T00:00:00Z as the platform sends it,    *)
(* "iso_offset" is ...+00:00, "iso_naive" has no zone, "garbage" is no     *)
(* ISO text.                                                               *)

\* str.replace('Z', '+00:00')
ReplaceZ(p) == IF p.form = "iso_z" THEN [p EXCEPT !.form = "iso_offset"] ELSE p

\* A variant that answers an unreadable text with a default date.
fromisoformat_DefaultDate(p) ==
    CASE p.form = "iso_offset" -> [ok |-> TRUE, t |-> p.t, tzinfo |-> "utc"]
      [] p.form = "iso_naive"  -> [ok |-> TRUE, t |-> p.t, tzinfo |-> "none"]
      [] OTHER                 -> [ok |-> TRUE, t |-> 0, tzinfo |-> "none"]

\* datetime.fromisoformat: a datetime, or ValueError
fromisoformat(p) ==
    CASE p.form = "iso_offset" -> [ok |-> TRUE, t |-> p.t, tzinfo |-> "utc"]
      [] p.form = "iso_naive"  -> [ok |-> TRUE, t |-> p.t, tzinfo |-> "none"]
      [] OTHER                 -> [ok |-> FALSE, error |-> "ValueError"]

\* (a - b).days for two datetimes of the same tzinfo: the floor of the
\* difference in days (negative when b is later than a).
DaysBetween(a, b) == (a - b) \div TicksPerDay

-----------------------------------------------------------------------------
(* ViralAnalyzer.calculate_viral_score                                     *)

IMax(a, b) == IF a >= b THEN a ELSE b

\* A variant that lets a video published today count as 0 days old.
DaysSincePublished_FloorZero(days) == IMax(0, days)

\* max(1, days)
DaysSincePublished(days) == IMax(1, days)

\* like_count / max(view_count, 1)  and  comment_count / max(view_count, 1)
PerView(count, view_count) == Rat(count, IMax(view_count, 1))

\* A variant that weighs a comment like a like.
EngagementScore_CommentsUnweighted(v) ==
    RMul(Rat(v.like_count + v.comment_count, IMax(v.view_count, 1)),
         RInt(10000))

\* (like_count + comment_count * 5) / max(view_count, 1) * 10000
EngagementScore(v) ==
    RMul(Rat(v.like_count + v.comment_count * 5, IMax(v.view_count, 1)),
         RInt(10000))

\* view_count / max(subscriber_count * 0.1, 1) when the channel record is
\* truthy and holds a positive subscriber_count, else 1.0
ChannelPerformanceRatio(v, channel_data) ==
    IF Truthy(channel_data) /\ Get(channel_data, "subscriber_count", 0) > 0
    THEN LET expected_views == Rat(channel_data.subscriber_count, 10)
         IN  RDiv(RInt(v.view_count), RMax(expected_views, RInt(1)))
    ELSE RInt(1)

\* A variant without the cap at 25.
ScoreComponent_Uncapped(raw, threshold) ==
    RMul(RDiv(raw, threshold), RInt(25))

\* min(raw / threshold * 25, 25)
ScoreComponent(raw, threshold) ==
    RMin(RMul(RDiv(raw, threshold), RInt(25)), RInt(25))

\* A variant that leaves the engagement component out of the sum.
SumComponents_ThreeOnly(sc) ==
    RAdd(RAdd(sc.views_per_day_score, sc.like_ratio_score),
         sc.comment_ratio_score)

\* sum(score_components.values())
SumComponents(sc) ==
    RAdd(RAdd(sc.views_per_day_score, sc.like_ratio_score),
         RAdd(sc.comment_ratio_score, sc.engagement_score))

\* A variant that adds the bonus from a ratio of 1 on.
ChannelBonus_AboveOne(ratio) ==
    IF RLt(RInt(1), ratio)
    THEN RMin(RInt(20), RMul(RSub(ratio, RInt(1)), RInt(5)))
    ELSE RInt(0)

\* what line 56 adds to the score: min(20, (ratio - 1) * 5) if ratio > 2
ChannelBonus(ratio) ==
    IF RLt(RInt(2), ratio)
    THEN RMin(RInt(20), RMul(RSub(ratio, RInt(1)), RInt(5)))
    ELSE RInt(0)

\* A variant without the clamp at 100.
ClampScore_Unclamped(s) == s

\* min(100, viral_score)
ClampScore(s) == RMin(RInt(100), s)

\* viral_score >= 70, on the score line 58 leaves
IsViral(viral_score) == RLe(RInt(70), viral_score)

\* The call: what it returns, or the exception it lets through.  "locals"
\* keeps the function's unrounded local variables beside the returned dict.
calculate_viral_score(th, video_data, channel_data, clock) ==
    LET published_date == fromisoformat(ReplaceZ(video_data.published_at))
    IN  IF ~published_date.ok
        THEN [ op      |-> "calculate_viral_score",
               outcome |-> "raised",
               error   |-> published_date.error ]
        ELSE
        LET days_since_published ==
                DaysSincePublished(DaysBetween(clock, published_date.t))
        IN  \* view_count / days_since_published: Python's division by zero
            IF days_since_published = 0
            THEN [ op      |-> "calculate_viral_score",
                   outcome |-> "raised",
                   error   |-> "ZeroDivisionError" ]
            ELSE
        LET views_per_day == Rat(video_data.view_count, days_since_published)
            like_ratio    == PerView(video_data.like_count, video_data.view_count)
            comment_ratio == PerView(video_data.comment_count, video_data.view_count)
            engagement_score == EngagementScore(video_data)
            channel_performance_ratio ==
                ChannelPerformanceRatio(video_data, channel_data)
            score_components ==
                [ views_per_day_score |->
                      ScoreComponent(views_per_day, th.views_per_day),
                  like_ratio_score |->
                      ScoreComponent(like_ratio, th.like_ratio),
                  comment_ratio_score |->
                      ScoreComponent(comment_ratio, th.comment_ratio),
                  engagement_score |->
                      ScoreComponent(engagement_score, th.engagement_score) ]
            bonus       == ChannelBonus(channel_performance_ratio)
            viral_score ==
                ClampScore(RAdd(SumComponents(score_components), bonus))
        IN  [ op      |-> "calculate_viral_score",
              outcome |-> "returned",
              result  |->
                [ viral_score      |-> Round(viral_score, 2),
                  views_per_day    |-> Round(views_per_day, 2),
                  like_ratio       |-> Round(RMul(like_ratio, RInt(100)), 4),
                  comment_ratio    |-> Round(RMul(comment_ratio, RInt(100)), 4),
                  engagement_score |-> Round(engagement_score, 2),
                  channel_performance_ratio |->
                      Round(channel_performance_ratio, 2),
                  days_since_published |-> days_since_published,
                  is_viral         |-> IsViral(viral_score),
                  score_components |-> score_components ],
              locals  |->
                [ views_per_day    |-> views_per_day,
                  like_ratio       |-> like_ratio,
                  comment_ratio    |-> comment_ratio,
                  engagement_score |-> engagement_score,
                  channel_performance_ratio |-> channel_performance_ratio,
                  bonus            |-> bonus,
                  viral_score      |-> viral_score ] ]

-----------------------------------------------------------------------------
(* ViralAnalyzer.predict_viral_potential                                   *)

\* A variant that also refuses the first full hour.
TooEarly_Inclusive(hours_since_upload) == hours_since_upload <= 1

\* if hours_since_upload < 1: return {"prediction": ...}
TooEarly(hours_since_upload) == hours_since_upload < 1

get_growth_recommendation(potential_score) ==
    IF potential_score >= 80 THEN "very_high"
    ELSE IF potential_score >= 60 THEN "good"
    ELSE IF potential_score >= 40 THEN "average"
    ELSE "slow"

IMin(a, b) == IF a <= b THEN a ELSE b

\* lines 180-183: 40 above the views_per_day threshold, 20 above half of it
ViewsBand(th, predicted_24h_views) ==
    IF RLt(th.views_per_day, predicted_24h_views) THEN 40
    ELSE IF RLt(RMul(th.views_per_day, Rat(1, 2)), predicted_24h_views)
         THEN 20 ELSE 0

\* lines 185-188: 30 above 1000, 15 above 500
EngagementBand(predicted_24h_engagement) ==
    IF RLt(RInt(1000), predicted_24h_engagement) THEN 30
    ELSE IF RLt(RInt(500), predicted_24h_engagement) THEN 15 ELSE 0

\* A variant that grants the bonus at any age of the video.
EarlyGrowthBonus_AtAnyAge(hours_since_upload, views_per_hour) ==
    IF RLt(RInt(1000), views_per_hour) THEN 30 ELSE 0

\* lines 191-192
EarlyGrowthBonus(hours_since_upload, views_per_hour) ==
    IF hours_since_upload <= 6 /\ RLt(RInt(1000), views_per_hour)
    THEN 30 ELSE 0

predict_viral_potential(th, video_data, hours_since_upload) ==
    IF TooEarly(hours_since_upload)
    THEN [ op      |-> "predict_viral_potential",
           outcome |-> "returned",
           hours   |-> hours_since_upload,
           result  |-> [prediction |-> "not_enough_time"] ]
    ELSE
    LET views_per_hour    == Rat(video_data.view_count, hours_since_upload)
        likes_per_hour    == Rat(video_data.like_count, hours_since_upload)
        comments_per_hour == Rat(video_data.comment_count, hours_since_upload)
        predicted_24h_views == RMul(views_per_hour, RInt(24))
        predicted_24h_engagement ==
            RMul(RAdd(likes_per_hour, RMul(comments_per_hour, RInt(5))),
                 RInt(24))
        viewsBand      == ViewsBand(th, predicted_24h_views)
        engagementBand == EngagementBand(predicted_24h_engagement)
        earlyBand      == EarlyGrowthBonus(hours_since_upload, views_per_hour)
        unclamped      == viewsBand + engagementBand + earlyBand
        potential_score == IMin(100, unclamped)
    IN  [ op      |-> "predict_viral_potential",
          outcome |-> "returned",
          hours   |-> hours_since_upload,
          locals  |-> [ views_band      |-> viewsBand,
                        engagement_band |-> engagementBand,
                        early_bonus     |-> earlyBand,
                        unclamped       |-> unclamped ],
          result  |->
            [ viral_potential_score    |-> potential_score,
              predicted_24h_views      |-> Round(predicted_24h_views, 0),
              predicted_24h_engagement |-> Round(predicted_24h_engagement, 0),
              current_growth_rate      |-> Round(views_per_hour, 2),
              recommendation |-> get_growth_recommendation(potential_score) ] ]

-----------------------------------------------------------------------------
(* The inputs the scorer is run on.                                        *)

ViewCounts == {0, 501, 7999, 1000000}

LikeCounts == {0, 10, 600, 50000}

CommentCounts == {0, 8, 2000}

SubscriberCounts == {0, 5, 1670, 2500, 2505, 50000}

HoursSinceUpload == {0, 1, 6, 7, 24}

ClockStart == 2 * TicksPerDay

PublishedAts ==
    [form : {"iso_z"}, t : 0 .. MaxTime]
      \cup {[form |-> "iso_naive", t |-> ClockStart - TicksPerDay],
            [form |-> "garbage", t |-> 0]}

Videos ==
    [ view_count    : ViewCounts,
      like_count    : LikeCounts,
      comment_count : CommentCounts,
      published_at  : PublishedAts ]

\* get_channel_info's answers: None, an empty record, a record without a
\* subscriber_count, a record with one.
Channels ==
    {None, EmptyDict, [video_count |-> 3]}
      \cup {[subscriber_count |-> n] : n \in SubscriberCounts}

NoCall == [op |-> "none"]

NoPrev == [set |-> FALSE]

Returned(c, op) == c.op = op /\ c.outcome = "returned"

Scored == Returned(call, "calculate_viral_score")

Predicted == Returned(call, "predict_viral_potential")

\* The raw metrics and sub-scores of an analysis.
Metrics(c) ==
    [ set |-> TRUE,
      raw |-> [ views_per_day_score |-> c.locals.views_per_day,
                like_ratio_score    |-> c.locals.like_ratio,
                comment_ratio_score |-> c.locals.comment_ratio,
                engagement_score    |-> c.locals.engagement_score ],
      score_components |-> c.result.score_components ]

-----------------------------------------------------------------------------
(* Text.  A text is a sequence of characters, a character a string: an     *)
(* ASCII character is itself, a Hangul syllable is H_ and its code point,  *)
(* a Hangul jamo J_ and its code point.  A word is a text.                 *)

\* a-z and A-Z, in step.
LowerSeq ==
    << "a", "b", "c", "d", "e", "f", "g", "h", "i", "j", "k", "l", "m", "n",
       "o", "p", "q", "r", "s", "t", "u", "v", "w", "x", "y", "z" >>

UpperSeq ==
    << "A", "B", "C", "D", "E", "F", "G", "H", "I", "J", "K", "L", "M", "N",
       "O", "P", "Q", "R", "S", "T", "U", "V", "W", "X", "Y", "Z" >>

LowerLetters == {LowerSeq[i] : i \in 1 .. Len(LowerSeq)}

UpperLetters == {UpperSeq[i] : i \in 1 .. Len(UpperSeq)}

Digits ==
    { "0", "1", "2", "3", "4", "5", "6", "7", "8", "9" }

\* The Hangul syllables (U+AC00 .. U+D7A3, the class [ga-hih] of the code)
\* the stopword lists and the texts below use, each written H_ and its code
\* point.
HangulSyllables ==
    { "H_AC00", "H_AC01", "H_AC19", "H_AC1C", "H_AC70", "H_ACE0", "H_ACFC",
      "H_ADF8", "H_AE08", "H_AE4C", "H_AED8", "H_B054", "H_B098", "H_B0B4",
      "H_B0D0", "H_B108", "H_B124", "H_B144", "H_B290", "H_B294", "H_B298",
      "H_B2C8", "H_B2E4", "H_B300", "H_B354", "H_B370", "H_B450", "H_B458",
      "H_B4E0", "H_B4F1", "H_B530", "H_B54C", "H_B5A4", "H_B77C", "H_B798",
      "H_B7EC", "H_B7F0", "H_B7F4", "H_B7FC", "H_B85C", "H_B97C", "H_B9AC",
      "H_B9CC", "H_B9CE", "H_B9D0", "H_B9E4", "H_BA38", "H_BA74", "H_BA85",
      "H_BAA8", "H_BB34", "H_BB38", "H_BBF8", "H_BC14", "H_BC15", "H_BC31",
      "H_BC88", "H_BC8C", "H_BCF4", "H_BD80", "H_BD84", "H_C0C1", "H_C11C",
      "H_C138", "H_C14B", "H_C21C", "H_C2A8", "H_C2B5", "H_C2DC", "H_C2ED",
      "H_C368", "H_C544", "H_C57C", "H_C5B4", "H_C5B5", "H_C5B8", "H_C5D0",
      "H_C5EC", "H_C601", "H_C608", "H_C624", "H_C640", "H_C644", "H_C65C",
      "H_C694", "H_C6B0", "H_C6CC", "H_C6D0", "H_C6D4", "H_C704", "H_C73C",
      "H_C740", "H_C744", "H_C74C", "H_C758", "H_C774", "H_C77C", "H_C785",
      "H_C790", "H_C7AC", "H_C800", "H_C804", "H_C815", "H_C81C", "H_C885",
      "H_C8FC", "H_C9C0", "H_C9C1", "H_C9C4", "H_C9DC", "H_C9F8", "H_CC28",
      "H_CC98", "H_CC9C", "H_CCB4", "H_CD08", "H_D130", "H_D558", "H_D568",
      "H_D56D", "H_D574", "H_D5C9", "H_D604", "H_D68C", "H_D760" }

\* Hangul compatibility jamo (letters of U+3131 .. U+318E, as in the
\* laughter "kkk"): word characters that are no Hangul syllables.
HangulJamo ==
    { "J_3137", "J_3147", "J_3149", "J_314B", "J_314E", "J_315C", "J_3160" }

\* config.STOPWORDS_KO, as a set of words.
STOPWORDS_KO ==
    { <<"H_ADF8">>, <<"H_B97C">>, <<"H_C744">>, <<"H_C5D0">>, <<"H_C758">>,
      <<"H_AC00">>, <<"H_C774">>, <<"H_C740">>, <<"H_B294">>, <<"H_C640">>,
      <<"H_ACFC">>, <<"H_B85C">>, <<"H_C73C", "H_B85C">>, <<"H_C5D0",
      "H_C11C">>, <<"H_AE4C", "H_C9C0">>, <<"H_BD80", "H_D130">>,
      <<"H_BCF4", "H_B2E4">>, <<"H_CC98", "H_B7FC">>, <<"H_AC19",
      "H_C774">>, <<"H_D558", "H_ACE0">>, <<"H_D558", "H_C9C0", "H_B9CC">>,
      <<"H_ADF8", "H_B9AC", "H_ACE0">>, <<"H_ADF8", "H_B7F0", "H_B370">>,
      <<"H_ADF8", "H_B7EC", "H_B098">>, <<"H_B530", "H_B77C", "H_C11C">>,
      <<"H_C65C", "H_B0D0", "H_D558", "H_BA74">>, <<"H_B54C", "H_BB38",
      "H_C5D0">>, <<"H_C785", "H_B2C8", "H_B2E4">>, <<"H_C2B5", "H_B2C8",
      "H_B2E4">>, <<"H_D574", "H_C694">>, <<"H_C774", "H_C5D0", "H_C694">>,
      <<"H_C608", "H_C694">>, <<"H_B124", "H_C694">>, <<"H_C694">>,
      <<"H_B2E4">>, <<"H_C57C">>, <<"H_C544">>, <<"H_C5B4">>, <<"H_C5EC">>,
      <<"w", "w", "w">>, <<"h", "t", "t", "p">>, <<"h", "t", "t", "p",
      "s">>, <<"c", "o", "m">>, <<"n", "e", "t">>, <<"o", "r", "g">>, <<"k",
      "r">>, <<"c", "o">>, <<"g", "o">>, <<"h", "t", "m", "l">>, <<"p", "h",
      "p">>, <<"a", "s", "p">>, <<"j", "s", "p">>, <<"u", "r", "l">>, <<"l",
      "i", "n", "k">>, <<"s", "i", "t", "e">>, <<"p", "a", "g", "e">>,
      <<"w", "e", "b">>, <<"b", "l", "o", "g">>, <<"y", "o", "u", "t", "u",
      "b", "e">>, <<"y", "o", "u", "t", "u">>, <<"b", "e">>, <<"w", "a",
      "t", "c", "h">>, <<"v", "i", "d", "e", "o">>, <<"c", "h", "a", "n",
      "n", "e", "l">>, <<"s", "u", "b", "s", "c", "r", "i", "b", "e">>,
      <<"l", "i", "k", "e">>, <<"c", "o", "m", "m", "e", "n", "t">>, <<"s",
      "h", "a", "r", "e">>, <<"f", "o", "l", "l", "o", "w">>, <<"i", "n",
      "s", "t", "a", "g", "r", "a", "m">>, <<"f", "a", "c", "e", "b", "o",
      "o", "k">>, <<"t", "w", "i", "t", "t", "e", "r">>, <<"t", "i", "k",
      "t", "o", "k">>, <<"s", "h", "o", "r", "t", "s">>, <<"l", "i", "v",
      "e">>, <<"s", "t", "r", "e", "a", "m">>, <<"s", "t", "r", "e", "a",
      "m", "i", "n", "g">>, <<"H_B354">>, <<"H_B9CE", "H_C740">>,
      <<"H_C815", "H_B9D0">>, <<"H_C9C4", "H_C9DC">>, <<"H_C644",
      "H_C804">>, <<"H_B108", "H_BB34">>, <<"H_C544", "H_C8FC">>,
      <<"H_B9E4", "H_C6B0">>, <<"H_C815", "H_B9D0", "H_B85C">>, <<"H_C774",
      "H_B7F0">>, <<"H_C800", "H_B7F0">>, <<"H_ADF8", "H_B7F0">>,
      <<"H_C5B4", "H_B5A4">>, <<"H_BB34", "H_C2A8">>, <<"H_C5B4",
      "H_B290">>, <<"H_BAA8", "H_B4E0">>, <<"H_C804", "H_CCB4">>,
      <<"H_C77C", "H_BD80">>, <<"H_AC01", "H_AC01">>, <<"H_AC01",
      "H_C790">>, <<"H_C11C", "H_B85C">>, <<"H_D568", "H_AED8">>,
      <<"H_BAA8", "H_B450">>, <<"H_C804", "H_BD80">>, <<"H_D558",
      "H_B098">>, <<"H_B458">>, <<"H_C14B">>, <<"H_C624", "H_B298">>,
      <<"H_C5B4", "H_C81C">>, <<"H_B0B4", "H_C77C">>, <<"H_C9C0",
      "H_AE08">>, <<"H_D604", "H_C7AC">>, <<"H_ACFC", "H_AC70">>,
      <<"H_BBF8", "H_B798">>, <<"H_C5B8", "H_C81C">>, <<"H_D56D",
      "H_C0C1">>, <<"H_AC00", "H_B054">>, <<"H_C885", "H_C885">>,
      <<"H_C790", "H_C8FC">>, <<"H_B54C", "H_B54C", "H_B85C">>, <<"H_C774",
      "H_C81C">>, <<"H_BC8C", "H_C368">>, <<"H_C544", "H_C9C1">>, <<"s",
      "t", "i", "l", "l">>, <<"a", "l", "r", "e", "a", "d", "y">>,
      <<"H_C624">>, <<"H_C6B0">>, <<"H_C6CC">>, <<"H_C74C">>, <<"H_C73C">>,
      <<"H_D760">>, <<"H_D5C9">>, <<"H_C5B4", "H_BA38">>, <<"H_C138",
      "H_C0C1">>, <<"H_B300", "H_BC15">>, <<"J_314B", "J_314B">>,
      <<"J_314E", "J_314E">>, <<"J_3160", "J_3160">>, <<"J_315C",
      "J_315C">>, <<"J_3147", "J_3147">>, <<"J_3137", "J_3137">>,
      <<"J_3149", "J_3149">>, <<"H_AC1C">>, <<"H_BA85">>, <<"H_BC88">>,
      <<"H_D68C">>, <<"H_CC28">>, <<"H_B4F1">>, <<"H_C704">>, <<"H_C21C">>,
      <<"H_C9F8">>, <<"H_B144">>, <<"H_C6D4">>, <<"H_C77C">>, <<"H_C2DC">>,
      <<"H_BD84">>, <<"H_CD08">>, <<"H_C6D0">>, <<"H_B9CC">>, <<"H_C5B5">>,
      <<"H_CC9C">>, <<"H_BC31">>, <<"H_C2ED">> }

\* config.STOPWORDS_EN, as a set of words.
STOPWORDS_EN ==
    { <<"t", "h", "e">>, <<"a">>, <<"a", "n">>, <<"a", "n", "d">>, <<"o",
      "r">>, <<"b", "u", "t">>, <<"i", "n">>, <<"o", "n">>, <<"a", "t">>,
      <<"t", "o">>, <<"f", "o", "r">>, <<"o", "f">>, <<"w", "i", "t", "h">>,
      <<"b", "y">>, <<"a", "s">>, <<"i", "s">>, <<"a", "r", "e">>, <<"w",
      "a", "s">>, <<"w", "e", "r", "e">>, <<"b", "e">>, <<"b", "e", "e",
      "n">>, <<"h", "a", "v", "e">>, <<"h", "a", "s">>, <<"h", "a", "d">>,
      <<"d", "o">>, <<"d", "o", "e", "s">>, <<"d", "i", "d">>, <<"w", "i",
      "l", "l">>, <<"w", "o", "u", "l", "d">>, <<"c", "o", "u", "l", "d">>,
      <<"s", "h", "o", "u", "l", "d">>, <<"m", "a", "y">>, <<"m", "i", "g",
      "h", "t">>, <<"c", "a", "n">>, <<"t", "h", "i", "s">>, <<"t", "h",
      "a", "t">>, <<"t", "h", "e", "s", "e">>, <<"t", "h", "o", "s", "e">>,
      <<"w", "w", "w">>, <<"h", "t", "t", "p">>, <<"h", "t", "t", "p",
      "s">>, <<"c", "o", "m">>, <<"n", "e", "t">>, <<"o", "r", "g">>, <<"h",
      "t", "m", "l">>, <<"p", "h", "p">>, <<"a", "s", "p">>, <<"u", "r",
      "l">>, <<"l", "i", "n", "k">>, <<"s", "i", "t", "e">>, <<"p", "a",
      "g", "e">>, <<"w", "e", "b">>, <<"b", "l", "o", "g">>, <<"d", "o",
      "m", "a", "i", "n">>, <<"s", "e", "r", "v", "e", "r">>, <<"y", "o",
      "u", "t", "u", "b", "e">>, <<"v", "i", "d", "e", "o">>, <<"w", "a",
      "t", "c", "h">>, <<"c", "h", "a", "n", "n", "e", "l">>, <<"s", "u",
      "b", "s", "c", "r", "i", "b", "e">>, <<"l", "i", "k", "e">>, <<"c",
      "o", "m", "m", "e", "n", "t">>, <<"s", "h", "a", "r", "e">>, <<"v",
      "i", "e", "w">>, <<"v", "i", "e", "w", "s">>, <<"s", "u", "b", "s",
      "c", "r", "i", "b", "e", "r">>, <<"f", "o", "l", "l", "o", "w", "e",
      "r", "s">>, <<"c", "o", "n", "t", "e", "n", "t">>, <<"m", "e", "d",
      "i", "a">>, <<"s", "o", "c", "i", "a", "l">>, <<"p", "l", "a", "t",
      "f", "o", "r", "m">>, <<"s", "t", "r", "e", "a", "m", "i", "n", "g">>,
      <<"l", "i", "v", "e">>, <<"u", "p", "l", "o", "a", "d">>, <<"m", "o",
      "r", "e">>, <<"m", "o", "s", "t">>, <<"v", "e", "r", "y">>, <<"r",
      "e", "a", "l", "l", "y">>, <<"j", "u", "s", "t">>, <<"o", "n", "l",
      "y">>, <<"a", "l", "s", "o">>, <<"e", "v", "e", "n">>, <<"s", "t",
      "i", "l", "l">>, <<"a", "l", "r", "e", "a", "d", "y">>, <<"y", "e",
      "t">>, <<"n", "o", "w">>, <<"t", "h", "e", "n">>, <<"h", "e", "r",
      "e">>, <<"t", "h", "e", "r", "e">>, <<"w", "h", "e", "r", "e">>,
      <<"w", "h", "a", "t">>, <<"w", "h", "e", "n">>, <<"w", "h", "y">>,
      <<"h", "o", "w">>, <<"w", "h", "o">>, <<"w", "h", "i", "c", "h">>,
      <<"a", "l", "l">>, <<"s", "o", "m", "e">>, <<"a", "n", "y">>, <<"e",
      "a", "c", "h">>, <<"e", "v", "e", "r", "y">>, <<"b", "o", "t", "h">>,
      <<"e", "i", "t", "h", "e", "r">>, <<"n", "e", "i", "t", "h", "e",
      "r">>, <<"o", "t", "h", "e", "r">>, <<"a", "n", "o", "t", "h", "e",
      "r">> }

\* stopwords.words('english') of the NLTK corpus: a part of its 179 words.
NltkEnglishStopwords ==
    { <<"i">>, <<"m", "e">>, <<"m", "y">>, <<"y", "o", "u">>, <<"y", "o",
      "u", "r">>, <<"h", "e">>, <<"s", "h", "e">>, <<"i", "t">>, <<"i", "t",
      "s">>, <<"w", "e">>, <<"o", "u", "r">>, <<"t", "h", "e", "y">>, <<"t",
      "h", "e", "m">>, <<"n", "o", "t">>, <<"n", "o">>, <<"n", "o", "r">>,
      <<"s", "o">>, <<"t", "h", "a", "n">>, <<"t", "o", "o">>, <<"f", "r",
      "o", "m">>, <<"a", "b", "o", "u", "t">>, <<"i", "n", "t", "o">>,
      <<"i", "f">>, <<"i", "s">>, <<"t", "h", "e">>, <<"a", "n", "d">> }

\* "youtube youtube test case case case"
Text_YoutubeTestCase ==
    << "y", "o", "u", "t", "u", "b", "e", " ", "y", "o", "u", "t", "u", "b",
       "e", " ", "t", "e", "s", "t", " ", "c", "a", "s", "e", " ", "c", "a",
       "s", "e", " ", "c", "a", "s", "e" >>

\* "Watch Funny CAT clips http://youtu.be/a1 www.cat-pix.co.kr cat!!"
Text_EnglishUrls ==
    << "W", "a", "t", "c", "h", " ", "F", "u", "n", "n", "y", " ", "C", "A",
       "T", " ", "c", "l", "i", "p", "s", " ", "h", "t", "t", "p", ":", "/",
       "/", "y", "o", "u", "t", "u", ".", "b", "e", "/", "a", "1", " ", "w",
       "w", "w", ".", "c", "a", "t", "-", "p", "i", "x", ".", "c", "o", ".",
       "k", "r", " ", "c", "a", "t", "!", "!" >>

\* Text_Korean (Hangul written by code point)
Text_Korean ==
    << "H_BC14", "H_C774", "H_B7F4", " ", "H_C601", "H_C0C1", "H_C744", " ",
       "H_BC14", "H_C774", "H_B7F4", " ", "J_314B", "J_314B", "J_314B", " ",
       "2", "0", "2", "4" >>

\* Text_Mixed (Hangul written by code point)
Text_Mixed ==
    << "H_BC14", "H_C774", "H_B7F4", " ", "i", "s", " ", "v", "i", "r", "a",
       "l" >>

\* "beta alpha beta alpha gamma"
Text_Ties ==
    << "b", "e", "t", "a", " ", "a", "l", "p", "h", "a", " ", "b", "e", "t",
       "a", " ", "a", "l", "p", "h", "a", " ", "g", "a", "m", "m", "a" >>

\* "123 !!! 45"
Text_NoLetters ==
    << "1", "2", "3", " ", "!", "!", "!", " ", "4", "5" >>

\* ""
Text_Empty == <<>>

\* Four Hangul syllables among thirteen letters: a Korean share above 0.30.
Text_KoreanLean ==
    << "H_BC14", "H_C774", "H_B7F4", "H_C740", " ", "v", "i", "r", "a", "l",
       " ", "c", "l", "i", "p" >>

\* Words every rule of the filters rejects, among words they accept.
Text_FilterPolicy ==
    << "t", "h", "e", " ", "s", "h", "o", "r", "t", "s", " ", "H_ADF8",
       "H_B9AC", "H_ACE0", " ", "z", "z", "z", " ", "1", "2", "3", "4", "5",
       " ", "s", "u", "p", "e", "r", "c", "a", "l", "i", "f", "r", "a", "g",
       "i", "l", "i", "s", "t", "i", "c", "e", "x", "p", "i", "a", "l", "i",
       "d", "o", "c", "i", "o", "u", "s", " ", "w", "w", "w", "s", "i", "t",
       "e", " ", "o", "k", " ", "H_C790", "H_C804", "H_AC70", " ", "H_C790",
       "H_C804", "H_AC70", " ", "H_CC28", " ", "c", "a", "t", "s" >>

IsLatin(c) == c \in LowerLetters \cup UpperLetters

\* the regex class [ga-hih] of Hangul syllables
IsHangul(c) == c \in HangulSyllables

\* the regex class \w
IsWordChar(c) ==
    IsLatin(c) \/ c \in Digits \/ c = "_" \/ IsHangul(c) \/ c \in HangulJamo

\* the regex class \s
IsSpace(c) == c = " "

LowerChar(c) ==
    IF c \in UpperLetters
    THEN LowerSeq[CHOOSE i \in 1 .. Len(UpperSeq) : UpperSeq[i] = c]
    ELSE c

\* str.lower()
lower(w) == [i \in 1 .. Len(w) |-> LowerChar(w[i])]

\* str.isdigit()
isdigit(w) == Len(w) > 0 /\ \A i \in 1 .. Len(w) : w[i] \in Digits

\* str.isalpha()
isalpha(w) ==
    /\ Len(w) > 0
    /\ \A i \in 1 .. Len(w) :
          IsLatin(w[i]) \/ IsHangul(w[i]) \/ w[i] \in HangulJamo

\* w occurs in t at index i
MatchAt(t, i, w) ==
    /\ i >= 1
    /\ i + Len(w) - 1 <= Len(t)
    /\ \A k \in 1 .. Len(w) : t[i + k - 1] = w[k]

StartsWith(t, w) == MatchAt(t, 1, w)

EndsWith(t, w) == MatchAt(t, Len(t) - Len(w) + 1, w)

Contains(t, w) == \E i \in 1 .. Len(t) : MatchAt(t, i, w)

SetMax(S) == CHOOSE x \in S : \A y \in S : y <= x

SetMin(S) == CHOOSE x \in S : \A y \in S : x <= y

\* A local name for a value: Body applied to x, with x evaluated once.
Bind(x, Body(_)) == CHOOSE r \in {Body(v) : v \in {x}} : TRUE

\* The maximal runs of characters of the class In(_) in t, in the order of
\* the text: what re.findall and str.split list.
RunsOf(t, In(_)) ==
    LET stop(b) == LET after == {e \in b .. Len(t) : ~In(t[e])}
                   IN  IF after = {} THEN Len(t) ELSE SetMin(after) - 1
    IN  Bind({i \in 1 .. Len(t) : In(t[i]) /\ (i = 1 \/ ~In(t[i - 1]))},
             LAMBDA starts :
                 [k \in 1 .. Cardinality(starts) |->
                     Bind(CHOOSE b \in starts :
                              Cardinality({x \in starts : x < b}) = k - 1,
                          LAMBDA b : SubSeq(t, b, stop(b)))])

Runs(text, In(_)) == Bind(text, LAMBDA t : RunsOf(t, In))

-----------------------------------------------------------------------------
(* KeywordAnalyzer.detect_language                                         *)

\* A variant that takes a share of exactly 0.30 for Korean.
detect_language_AtLeast(text) ==
    LET korean_chars ==
            Cardinality({i \in 1 .. Len(text) : IsHangul(text[i])})
        total_chars ==
            Cardinality({i \in 1 .. Len(text) :
                            IsHangul(text[i]) \/ IsLatin(text[i])})
    IN  IF total_chars = 0 THEN "en"
        ELSE IF RLe(Rat(3, 10), Rat(korean_chars, total_chars))
             THEN "ko" ELSE "en"

detect_language(text) ==
    LET korean_chars ==
            Cardinality({i \in 1 .. Len(text) : IsHangul(text[i])})
        total_chars ==
            Cardinality({i \in 1 .. Len(text) :
                            IsHangul(text[i]) \/ IsLatin(text[i])})
    IN  IF total_chars = 0 THEN "en"
        ELSE IF RLt(Rat(3, 10), Rat(korean_chars, total_chars))
             THEN "ko" ELSE "en"

-----------------------------------------------------------------------------
(* KeywordAnalyzer.is_url_fragment, is_meaningless_word                    *)

is_url_fragment(word) ==
    \/ StartsWith(word, <<"w", "w", "w">>)
    \/ EndsWith(word, <<".", "c", "o", "m">>)
    \/ EndsWith(word, <<".", "n", "e", "t">>)
    \/ EndsWith(word, <<".", "o", "r", "g">>)
    \/ EndsWith(word, <<".", "k", "r">>)
    \/ EndsWith(word, <<".", "c", "o">>)
    \/ StartsWith(word, <<"h", "t", "t", "p">>)
    \/ StartsWith(word, <<"h", "t", "t", "p", "s">>)
    \/ Contains(word, <<"y", "o", "u", "t", "u", "b", "e">>)
    \/ Contains(word, <<"y", "o", "u", "t", "u", ".", "b", "e">>)

\* A variant without the limit of 20 characters.
is_meaningless_word_NoLengthLimit(word) ==
    \/ Len(word) >= 3 /\ \A i \in 1 .. Len(word) : word[i] = word[1]
    \/ Len(word) >= 1
         /\ \A i \in 1 .. Len(word) : ~IsWordChar(word[i]) /\ ~IsHangul(word[i])
    \/ Len(word) < 2

is_meaningless_word(word) ==
    \* ^(.)\1{2,}$
    \/ Len(word) >= 3 /\ \A i \in 1 .. Len(word) : word[i] = word[1]
    \* ^[^\w ga-hih]+$
    \/ Len(word) >= 1
         /\ \A i \in 1 .. Len(word) : ~IsWordChar(word[i]) /\ ~IsHangul(word[i])
    \/ Len(word) < 2
    \/ Len(word) > 20

-----------------------------------------------------------------------------
(* collections.Counter: the words with their counts, in the order in which *)
(* the words were first counted.                                           *)

\* A variant that keeps counting in the Counter of the call before.
NewCounter_KeptFromLastCall ==
    IF kwCall.made THEN kwCall.keywords ELSE <<>>

\* Counter(): a Counter made for the call, empty.
NewCounter == <<>>

\* The places of a sequence at which an item stands for the first time, and
\* the k-th of a set of places.
FirstPlaces(keys) ==
    {i \in 1 .. Len(keys) : \A j \in 1 .. i - 1 : keys[j] # keys[i]}

NthPlace(places, k) ==
    CHOOSE i \in places : Cardinality({x \in places : x < i}) = k - 1

\* counter.update(words): a word the counter holds gains its occurrences, and
\* the new words follow in the order of their first occurrence.
CounterUpdated(counter, words) ==
    LET held(w)  == \E k \in 1 .. Len(counter) : counter[k][1] = w
        times(w) == Cardinality({i \in 1 .. Len(words) : words[i] = w})
    IN  [k \in 1 .. Len(counter) |->
            <<counter[k][1], counter[k][2] + times(counter[k][1])>>]
          \o
        Bind({i \in FirstPlaces(words) : ~held(words[i])}, LAMBDA new :
            [k \in 1 .. Cardinality(new) |->
                Bind(words[NthPlace(new, k)], LAMBDA w : <<w, times(w)>>)])

CounterUpdate(counter, words) ==
    Bind(counter, LAMBDA c : Bind(words, LAMBDA ws : CounterUpdated(c, ws)))

\* Counter(words)
Counter(words) == CounterUpdate(NewCounter, words)

\* A variant that is not stable: items of equal count come out in the
\* reverse of their order.
SortByCount_TiesReversed(list) ==
    Bind(list, LAMBDA items :
        LET before(k) ==
                Cardinality({j \in 1 .. Len(items) :
                                \/ items[j][2] > items[k][2]
                                \/ items[j][2] = items[k][2] /\ j > k})
        IN  [p \in 1 .. Len(items) |->
                items[CHOOSE k \in 1 .. Len(items) : before(k) = p - 1]])

\* sorted(items, key=count, reverse=True): stable, so an item comes after
\* the items of a higher count and the earlier items of its own count.
SortByCount(list) ==
    Bind(list, LAMBDA items :
        LET before(k) ==
                Cardinality({j \in 1 .. Len(items) :
                                \/ items[j][2] > items[k][2]
                                \/ items[j][2] = items[k][2] /\ j < k})
        IN  [p \in 1 .. Len(items) |->
                items[CHOOSE k \in 1 .. Len(items) : before(k) = p - 1]])

\* A variant that cuts the Counter without sorting it.
most_common_Unsorted(counter, n) ==
    Bind(counter, LAMBDA sorted : SubSeq(sorted, 1, IMin(n, Len(sorted))))

\* Counter.most_common(n), n >= 0
most_common(counter, n) ==
    Bind(SortByCount(counter), LAMBDA sorted :
        SubSeq(sorted, 1, IMin(n, Len(sorted))))

-----------------------------------------------------------------------------
(* KeywordAnalyzer.extract_simple_keywords                                 *)

\* The characters the URL pattern's body accepts: letters, digits, the range
\* $-_ and ! * \ ( ) , @ . & +
UrlPunctuation ==
    { "$", "%", "&", "'", "(", ")", "*", "+", ",", "-", ".", "/", ":", ";",
      "<", "=", ">", "?", "@", "[", "\\", "]", "^", "_", "!" }

IsUrlBodyChar(c) == IsLatin(c) \/ c \in Digits \/ c \in UrlPunctuation

\* the index after the run of URL body characters that starts at i
UrlBodyEnd(t, i) ==
    LET after == {e \in i .. Len(t) : ~IsUrlBodyChar(t[e])}
    IN  IF after = {} THEN IMax(i, Len(t) + 1) ELSE SetMin(after)

\* The index after the match of http[s]?://(body)+ that starts at i, or 0.
HttpMatchEnd(t, i) ==
    LET p == IF MatchAt(t, i, <<"h", "t", "t", "p", "s", ":", "/", "/">>)
             THEN i + 8
             ELSE IF MatchAt(t, i, <<"h", "t", "t", "p", ":", "/", "/">>)
                  THEN i + 7 ELSE 0
        e == IF p = 0 THEN 0 ELSE UrlBodyEnd(t, p)
    IN  IF p # 0 /\ e > p THEN e ELSE 0

\* the index after the run of \w characters that starts at i
WordRunEnd(t, i) ==
    LET after == {e \in i .. Len(t) : ~IsWordChar(t[e])}
    IN  IF after = {} THEN IMax(i, Len(t) + 1) ELSE SetMin(after)

\* the index after the run of [\w.-] characters that starts at i
HostRunEnd(t, i) ==
    LET after == {e \in i .. Len(t) :
                     ~(IsWordChar(t[e]) \/ t[e] \in {".", "-"})}
    IN  IF after = {} THEN IMax(i, Len(t) + 1) ELSE SetMin(after)

\* The index after the match of www\.[\w.-]+\.\w+ that starts at i, or 0:
\* the greedy [\w.-]+ gives back up to the last dot a \w follows.
WwwMatchEnd(t, i) ==
    IF ~MatchAt(t, i, <<"w", "w", "w", ".">>) THEN 0
    ELSE LET s    == i + 4
             e    == HostRunEnd(t, s)
             dots == {d \in s + 1 .. e - 2 :
                         t[d] = "." /\ IsWordChar(t[d + 1])}
         IN  IF dots = {} THEN 0 ELSE WordRunEnd(t, SetMax(dots) + 1)

RECURSIVE RemoveHttp(_, _)
\* re.sub(r'http[s]?://...', '', text), from index i
RemoveHttp(t, i) ==
    LET matches == {k \in i .. Len(t) : HttpMatchEnd(t, k) # 0}
    IN  IF matches = {} THEN SubSeq(t, i, Len(t))
        ELSE LET k == SetMin(matches)
             IN  SubSeq(t, i, k - 1) \o RemoveHttp(t, HttpMatchEnd(t, k))

RECURSIVE RemoveWww(_, _)
\* re.sub(r'www\.[\w.-]+\.\w+', '', text), from index i
RemoveWww(t, i) ==
    LET matches == {k \in i .. Len(t) : WwwMatchEnd(t, k) # 0}
    IN  IF matches = {} THEN SubSeq(t, i, Len(t))
        ELSE LET k == SetMin(matches)
             IN  SubSeq(t, i, k - 1) \o RemoveWww(t, WwwMatchEnd(t, k))

\* re.sub(r'[^\w\s ga-hih]', ' ', text)
CleanText(t) ==
    [i \in 1 .. Len(t) |->
        IF IsWordChar(t[i]) \/ IsSpace(t[i]) \/ IsHangul(t[i])
        THEN t[i] ELSE " "]

\* str.split(): the runs of non-space characters
split(t) == Runs(t, LAMBDA c : ~IsSpace(c))

\* the filter of lines 190-195
SimpleKeep(an, word) ==
    /\ Len(word) > 2
    /\ ~isdigit(word)
    /\ lower(word) \notin an.korean_stopwords
    /\ lower(word) \notin an.english_stopwords
    /\ ~is_url_fragment(lower(word))
    /\ ~is_meaningless_word(lower(word))

\* the loop of lines 186-196 on the words of line 183
SimpleFilter(an, words) ==
    SelectSeq([i \in 1 .. Len(words) |->
                  IF SimpleKeep(an, words[i]) THEN lower(words[i]) ELSE <<>>],
              LAMBDA w : w # <<>>)

extract_simple_keywords(an, text, max_keywords) ==
    Bind(split(CleanText(RemoveWww(RemoveHttp(text, 1), 1))), LAMBDA words :
    Bind(SimpleFilter(an, words), LAMBDA filtered_words :
        [ path     |-> "simple",
          outcome  |-> "returned",
          filtered_words |-> filtered_words,
          keywords |-> most_common(Counter(filtered_words), max_keywords) ]))

-----------------------------------------------------------------------------
(* The optional libraries.  nltk is "absent" (the import fails), "ok", or  *)
(* "no_data" (imported, but the tokenizer's data is not installed, so      *)
(* word_tokenize raises LookupError); konlpy is "absent", "ok", or         *)
(* "failing" (imported, but the analyzer's calls raise).  The libraries    *)
(* themselves are outside the repository: NLTK's tokenizer and tagger and  *)
(* KoNLPy's noun extraction are stood in for by the rules below.           *)

NLTK_AVAILABLE == nltk # "absent"

KONLPY_AVAILABLE == konlpy # "absent"

\* nltk.word_tokenize: the text is split at spaces, and these punctuation
\* marks stand as tokens of their own.
TokenPunctuation == {"!", "?", ",", ":", ";", "(", ")", "\""}

Tokens(t) ==
    LET Plain(c) == ~IsSpace(c) /\ c \notin TokenPunctuation
        stop(b)  == IF t[b] \in TokenPunctuation THEN b
                    ELSE LET after == {e \in b .. Len(t) : ~Plain(t[e])}
                         IN  IF after = {} THEN Len(t) ELSE SetMin(after) - 1
    IN  Bind({i \in 1 .. Len(t) :
                 \/ t[i] \in TokenPunctuation
                 \/ Plain(t[i]) /\ (i = 1 \/ ~Plain(t[i - 1]))},
             LAMBDA starts :
                 [k \in 1 .. Cardinality(starts) |->
                     Bind(NthPlace(starts, k),
                          LAMBDA b : SubSeq(t, b, stop(b)))])

word_tokenize(text) == Bind(text, LAMBDA t : Tokens(t))

\* nltk.pos_tag: a word of these lists is tagged as listed, a number CD, a
\* token without letters or digits as punctuation, any other word NN.
TaggedVerbs == {<<"w", "a", "t", "c", "h">>, <<"i", "s">>}

TaggedAdjectives == {<<"f", "u", "n", "n", "y">>, <<"v", "i", "r", "a", "l">>}

pos_tag(token) ==
    IF token \in TaggedVerbs THEN "VB"
    ELSE IF token \in TaggedAdjectives THEN "JJ"
    ELSE IF isdigit(token) THEN "CD"
    ELSE IF \A i \in 1 .. Len(token) : ~IsWordChar(token[i]) THEN "."
    ELSE "NN"

\* Okt.nouns: the runs of Hangul syllables of the text, each without the
\* particle it ends in.
Particles == {"H_C744", "H_B97C", "H_C740", "H_B294"}

HangulRuns(t) == Runs(t, IsHangul)

okt_nouns(t) ==
    Bind(HangulRuns(t), LAMBDA runs :
        [i \in 1 .. Len(runs) |->
            IF Len(runs[i]) > 1 /\ runs[i][Len(runs[i])] \in Particles
            THEN SubSeq(runs[i], 1, Len(runs[i]) - 1)
            ELSE runs[i]])

-----------------------------------------------------------------------------
(* KeywordAnalyzer                                                         *)

\* KeywordAnalyzer.__init__
KeywordAnalyzerInit ==
    [ korean_stopwords  |-> STOPWORDS_KO,
      english_stopwords |->
          IF NLTK_AVAILABLE
          THEN NltkEnglishStopwords \cup STOPWORDS_EN
          ELSE STOPWORDS_EN,
      okt |-> IF KONLPY_AVAILABLE THEN "Okt" ELSE "None" ]

\* the filter of lines 124-128
KoreanKeep(an, word) ==
    /\ Len(word) > 1
    /\ word \notin an.korean_stopwords
    /\ ~isdigit(word)
    /\ ~is_url_fragment(lower(word))
    /\ ~is_meaningless_word(lower(word))

\* the try block of lines 114-134: a call of the analyzer that raises ends it
KoreanAnalysis(an, text, max_keywords) ==
    IF konlpy = "failing"
    THEN [ path |-> "korean", outcome |-> "raised", error |-> "Exception",
           filtered_words |-> <<>>, keywords |-> <<>> ]
    ELSE Bind(SelectSeq(okt_nouns(text), LAMBDA w : KoreanKeep(an, w)),
              LAMBDA filtered_words :
                  [ path     |-> "korean",
                    outcome  |-> "returned",
                    filtered_words |-> filtered_words,
                    keywords |->
                        most_common(Counter(filtered_words), max_keywords) ])

\* A variant without the except clause of lines 136-138.
extract_korean_keywords_Uncaught(an, text, max_keywords) ==
    IF an.okt = "None"
    THEN extract_simple_keywords(an, text, max_keywords)
    ELSE KoreanAnalysis(an, text, max_keywords)

extract_korean_keywords(an, text, max_keywords) ==
    IF an.okt = "None"
    THEN extract_simple_keywords(an, text, max_keywords)
    ELSE LET try == KoreanAnalysis(an, text, max_keywords)
         IN  IF try.outcome = "raised"
             \* except Exception
             THEN extract_simple_keywords(an, text, max_keywords)
             ELSE try

\* the filter of lines 157-161
EnglishKeep(an, word) ==
    /\ pos_tag(word) \in {"NN", "JJ"}
    /\ Len(word) > 2
    /\ word \notin an.english_stopwords
    /\ isalpha(word)
    /\ ~is_url_fragment(lower(word))
    /\ ~is_meaningless_word(lower(word))

\* the try block of lines 147-167: word_tokenize raises LookupError without
\* its data
EnglishAnalysis(an, text, max_keywords) ==
    IF nltk = "no_data"
    THEN [ path |-> "english", outcome |-> "raised", error |-> "LookupError",
           filtered_words |-> <<>>, keywords |-> <<>> ]
    ELSE Bind(SelectSeq(word_tokenize(lower(text)),
                        LAMBDA w : EnglishKeep(an, w)),
              LAMBDA keywords :
                  [ path     |-> "english",
                    outcome  |-> "returned",
                    filtered_words |-> keywords,
                    keywords |->
                        most_common(Counter(keywords), max_keywords) ])

extract_english_keywords(an, text, max_keywords) ==
    IF ~NLTK_AVAILABLE
    THEN extract_simple_keywords(an, text, max_keywords)
    ELSE LET try == EnglishAnalysis(an, text, max_keywords)
         IN  IF try.outcome = "raised"
             \* except Exception
             THEN extract_simple_keywords(an, text, max_keywords)
             ELSE try

\* A text argument is a str with its characters, or a value of another type.
IsStr(text) == text.type = "str"

extract_keywords_from_text(an, text, language, max_keywords) ==
    IF ~IsStr(text) \/ text.chars = <<>>
    THEN [ path |-> "none", outcome |-> "returned", language |-> language,
           filtered_words |-> <<>>, keywords |-> <<>> ]
    ELSE LET lang == IF language = "auto"
                     THEN detect_language(text.chars) ELSE language
         IN  [language |-> lang] @@
             (IF lang = "ko" /\ an.okt # "None"
              THEN extract_korean_keywords(an, text.chars, max_keywords)
              ELSE extract_english_keywords(an, text.chars, max_keywords))

-----------------------------------------------------------------------------
(* The inputs the keyword extractor is run on.                             *)

Texts ==
    {[type |-> "NoneType"], [type |-> "int"]}
      \cup {[type |-> "str", chars |-> t] :
               t \in { Text_Empty, Text_YoutubeTestCase, Text_EnglishUrls,
                       Text_Korean, Text_Mixed, Text_Ties, Text_NoLetters,
                       Text_KoreanLean, Text_FilterPolicy }}

Languages == {"auto", "ko", "en"}

MaxKeywords == {1, 20}

Requests == [text : Texts, language : Languages, max_keywords : MaxKeywords]

\* The calls made between two calls on the request.
OtherRequests ==
    {[text |-> [type |-> "str", chars |-> Text_Ties],
      language |-> "auto", max_keywords |-> 20]}

NoKwCall == [made |-> FALSE]

-----------------------------------------------------------------------------
(* KeywordAnalyzer.analyze_video_keywords.  A video record is a dict with  *)
(* some of the keys title, description (texts) and tags (a list of texts). *)

\* video.get(key, '')
GetText(video_rec, key) ==
    IF key \in DOMAIN video_rec THEN video_rec[key] ELSE <<>>

\* [video.get(key, '') for video in videos_data]
FieldTexts(videos_data, key) ==
    [i \in 1 .. Len(videos_data) |-> GetText(videos_data[i], key)]

RECURSIVE JoinFrom(_, _)
\* ' '.join(texts[i ..])
JoinFrom(texts, i) ==
    IF i > Len(texts) THEN <<>>
    ELSE IF i = Len(texts) THEN texts[i]
    ELSE texts[i] \o <<" ">> \o JoinFrom(texts, i + 1)

RECURSIVE AllTagsFrom(_, _)
\* all_tags after the loop of lines 253-257 has read videos_data[i ..]
AllTagsFrom(videos_data, i) ==
    IF i > Len(videos_data) THEN <<>>
    ELSE (IF "tags" \in DOMAIN videos_data[i] /\ videos_data[i].tags # <<>>
          THEN videos_data[i].tags ELSE <<>>)
             \o AllTagsFrom(videos_data, i + 1)

\* A variant that keeps every tag.
TopTags_Uncapped(all_tags) == SortByCount(Counter(all_tags))

\* Counter(all_tags).most_common(20)
TopTags(all_tags) == most_common(Counter(all_tags), 20)

\* The loops of lines 273-280 on a list of (keyword, freq) entries, each
\* keyword once: the dict all_keywords, in the order in which its keys were
\* inserted, gains freq * weight under each keyword.
Merged(all_keywords, entries, weight) ==
    LET held(w) == \E k \in 1 .. Len(all_keywords) : all_keywords[k][1] = w
        gain(w) ==
            LET at == {i \in 1 .. Len(entries) : entries[i][1] = w}
            IN  IF at = {} THEN 0
                ELSE entries[CHOOSE i \in at : TRUE][2] * weight
    IN  [k \in 1 .. Len(all_keywords) |->
            <<all_keywords[k][1],
              all_keywords[k][2] + gain(all_keywords[k][1])>>]
          \o
        Bind({i \in 1 .. Len(entries) : ~held(entries[i][1])}, LAMBDA new :
            [k \in 1 .. Cardinality(new) |->
                Bind(entries[NthPlace(new, k)],
                     LAMBDA e : <<e[1], e[2] * weight>>)])

MergeKeywords(all_keywords, entries, weight) ==
    Bind(all_keywords, LAMBDA d :
        Bind(entries, LAMBDA es : Merged(d, es, weight)))

\* A variant whose sort turns the order of equal weights around.
TopKeywords_TiesReversed(all_keywords) ==
    Bind(SortByCount_TiesReversed(all_keywords), LAMBDA sorted :
        SubSeq(sorted, 1, IMin(50, Len(sorted))))

\* sorted(all_keywords.items(), key=lambda x: x[1], reverse=True)[:50]
TopKeywords(all_keywords) ==
    Bind(SortByCount(all_keywords), LAMBDA sorted :
        SubSeq(sorted, 1, IMin(50, Len(sorted))))

\* the texts and tags gathered by lines 249-265, and the keywords of the texts
TitleKeywords(an, videos_data) ==
    extract_keywords_from_text(
        an, [type |-> "str",
             chars |-> JoinFrom(FieldTexts(videos_data, "title"), 1)],
        "auto", 30).keywords

DescriptionKeywords(an, videos_data) ==
    extract_keywords_from_text(
        an, [type |-> "str",
             chars |-> JoinFrom(FieldTexts(videos_data, "description"), 1)],
        "auto", 30).keywords

analyze_video_keywords(an, videos_data) ==
    Bind(AllTagsFrom(videos_data, 1), LAMBDA all_tags :
    Bind(TitleKeywords(an, videos_data), LAMBDA title_keywords :
    Bind(DescriptionKeywords(an, videos_data), LAMBDA description_keywords :
    Bind(TopTags(all_tags), LAMBDA top_tags :
    Bind(MergeKeywords(
             MergeKeywords(
                 MergeKeywords(<<>>, title_keywords, 3),
                 description_keywords, 1),
             top_tags, 2), LAMBDA all_keywords :
        [ made    |-> TRUE,
          outcome |-> "returned",
          result  |-> [ title_keywords        |-> title_keywords,
                        description_keywords  |-> description_keywords,
                        top_tags              |-> top_tags,
                        combined_keywords     |-> TopKeywords(all_keywords),
                        total_videos_analyzed |-> Len(videos_data) ],
          locals  |-> [ all_tags     |-> all_tags,
                        all_keywords |-> all_keywords ] ])))))

-----------------------------------------------------------------------------
(* The batches analyze_video_keywords is run on.                           *)

\* 31 different words: "qaa qab ... qbe"
Title_Long ==
    << "q", "a", "a", " ", "q", "a", "b", " ", "q", "a", "c", " ", "q",
       "a", "d", " ", "q", "a", "e", " ", "q", "a", "f", " ", "q", "a",
       "g", " ", "q", "a", "h", " ", "q", "a", "i", " ", "q", "a", "j",
       " ", "q", "a", "k", " ", "q", "a", "l", " ", "q", "a", "m", " ",
       "q", "a", "n", " ", "q", "a", "o", " ", "q", "a", "p", " ", "q",
       "a", "q", " ", "q", "a", "r", " ", "q", "a", "s", " ", "q", "a",
       "t", " ", "q", "a", "u", " ", "q", "a", "v", " ", "q", "a", "w",
       " ", "q", "a", "x", " ", "q", "a", "y", " ", "q", "a", "z", " ",
       "q", "b", "a", " ", "q", "b", "b", " ", "q", "b", "c", " ", "q",
       "b", "d", " ", "q", "b", "e" >>

\* 31 other words: "jaa jab ... jbe"
Description_Long ==
    << "j", "a", "a", " ", "j", "a", "b", " ", "j", "a", "c", " ", "j",
       "a", "d", " ", "j", "a", "e", " ", "j", "a", "f", " ", "j", "a",
       "g", " ", "j", "a", "h", " ", "j", "a", "i", " ", "j", "a", "j",
       " ", "j", "a", "k", " ", "j", "a", "l", " ", "j", "a", "m", " ",
       "j", "a", "n", " ", "j", "a", "o", " ", "j", "a", "p", " ", "j",
       "a", "q", " ", "j", "a", "r", " ", "j", "a", "s", " ", "j", "a",
       "t", " ", "j", "a", "u", " ", "j", "a", "v", " ", "j", "a", "w",
       " ", "j", "a", "x", " ", "j", "a", "y", " ", "j", "a", "z", " ",
       "j", "b", "a", " ", "j", "b", "b", " ", "j", "b", "c", " ", "j",
       "b", "d", " ", "j", "b", "e" >>

\* 21 different tags: "xaa", "xab", ... "xau"
Tags_Long ==
    << <<"x", "a", "a">>, <<"x", "a", "b">>, <<"x", "a", "c">>,
       <<"x", "a", "d">>, <<"x", "a", "e">>, <<"x", "a", "f">>,
       <<"x", "a", "g">>, <<"x", "a", "h">>, <<"x", "a", "i">>,
       <<"x", "a", "j">>, <<"x", "a", "k">>, <<"x", "a", "l">>,
       <<"x", "a", "m">>, <<"x", "a", "n">>, <<"x", "a", "o">>,
       <<"x", "a", "p">>, <<"x", "a", "q">>, <<"x", "a", "r">>,
       <<"x", "a", "s">>, <<"x", "a", "t">>, <<"x", "a", "u">> >>

\* title "Alpha beta", description "alpha beta", tags "alpha" and "Beta"
Video_AlphaBeta ==
    [ title       |-> <<"A", "l", "p", "h", "a", " ", "b", "e", "t", "a">>,
      description |-> <<"a", "l", "p", "h", "a", " ", "b", "e", "t", "a">>,
      tags        |-> << <<"a", "l", "p", "h", "a">>,
                         <<"B", "e", "t", "a">> >> ]

\* a record without title, description and tags
Video_NoFields == [x \in {} |-> <<>>]

\* a Korean title, an empty description, an empty tag list
Video_KoreanTitle ==
    [ title       |-> Text_KoreanLean,
      description |-> <<>>,
      tags        |-> <<>> ]

\* title "gamma delta", description "delta clip", tags "gamma" twice and
\* "delta"
Video_GammaDelta ==
    [ title       |-> <<"g", "a", "m", "m", "a", " ", "d", "e", "l", "t", "a">>,
      description |-> <<"d", "e", "l", "t", "a", " ", "c", "l", "i", "p">>,
      tags        |-> << <<"g", "a", "m", "m", "a">>,
                         <<"g", "a", "m", "m", "a">>,
                         <<"d", "e", "l", "t", "a">> >> ]

\* a record with more words and tags than the lists keep
Video_Long ==
    [ title |-> Title_Long, description |-> Description_Long,
      tags |-> Tags_Long ]

SmallVideos ==
    {Video_AlphaBeta, Video_NoFields, Video_KoreanTitle, Video_GammaDelta}

Batches ==
    {<<>>}
      \cup {<<v>> : v \in SmallVideos}
      \cup {<<v, w>> : v \in SmallVideos, w \in SmallVideos}
      \cup { <<Video_Long>>, <<Video_Long, Video_AlphaBeta>>,
              <<Video_NoFields, Video_Long>> }

NoAnalysis == [made |-> FALSE]

-----------------------------------------------------------------------------
(* viral_analyzer.analyze_trends.  A DataFrame is the sequence of its      *)
(* column names and the sequence of its rows, a row giving a value to      *)
(* every column.  pd.DataFrame([]) has neither columns nor rows.           *)

RECURSIVE SetSum(_)
\* The sum of the numbers of a set of (index, number) pairs.
SetSum(pairs) ==
    IF pairs = {} THEN 0
    ELSE LET p == CHOOSE q \in pairs : TRUE
         IN  p[2] + SetSum(pairs \ {p})

EmptyFrame == [columns |-> <<>>, rows |-> <<>>]

\* DataFrame.empty: an axis of length 0
empty(df) == Len(df.columns) = 0 \/ Len(df.rows) = 0

\* df[name] = Value(row), row by row: an existing column is overwritten, a
\* new one is appended.
SetColumn(df, name, Value(_)) ==
    [ columns |-> IF \E i \in 1 .. Len(df.columns) : df.columns[i] = name
                  THEN df.columns ELSE Append(df.columns, name),
      rows    |-> [i \in 1 .. Len(df.rows) |->
                      [c \in DOMAIN df.rows[i] \cup {name} |->
                          IF c = name THEN Value(df.rows[i])
                          ELSE df.rows[i][c]]] ]

\* pd.to_datetime of 'YYYY-MM-DDTHH:00:00Z': the UTC Timestamp
to_datetime(published_at) ==
    [ year  |-> published_at.year,  month |-> published_at.month,
      day   |-> published_at.day,   hour  |-> published_at.hour,
      tz    |-> "UTC" ]

DayNames ==
    <<"Sunday", "Monday", "Tuesday", "Wednesday", "Thursday", "Friday",
      "Saturday">>

MonthOffsets == <<0, 3, 2, 5, 0, 3, 5, 1, 4, 6, 2, 4>>

\* Timestamp.day_name(): the day of the week of a Gregorian date
day_name(ts) ==
    LET y == IF ts.month < 3 THEN ts.year - 1 ELSE ts.year
    IN  DayNames[((y + (y \div 4) - (y \div 100) + (y \div 400)
                     + MonthOffsets[ts.month] + ts.day) % 7) + 1]

\* The rows of a group, the sum and the mean of a column over rows.
GroupRows(df, key, group) ==
    {i \in 1 .. Len(df.rows) : df.rows[i][key] = group}

RECURSIVE ColumnSum(_, _, _)
ColumnSum(df, col, rows) ==
    IF rows = {} THEN 0
    ELSE LET i == CHOOSE r \in rows : TRUE
         IN  df.rows[i][col] + ColumnSum(df, col, rows \ {i})

ColumnMean(df, col, rows) == Rat(ColumnSum(df, col, rows), Cardinality(rows))

Groups(df, key) == {df.rows[i][key] : i \in 1 .. Len(df.rows)}

\* A variant that sorts the means in ascending order.
GroupMeansDescending_Ascending(df, key) ==
    LET groups == {df.rows[i][key] : i \in 1 .. Len(df.rows)}
        n      == Cardinality(groups)
        Mean(g) == Rat(SetSum({<<i, df.rows[i].view_count>> :
                                  i \in {r \in 1 .. Len(df.rows) :
                                            df.rows[r][key] = g}}),
                       Cardinality({r \in 1 .. Len(df.rows) :
                                       df.rows[r][key] = g}))
    IN  { [k \in 1 .. n |-> <<order[k], Mean(order[k])>>] :
            order \in { o \in [1 .. n -> groups] :
                          /\ \A j, k \in 1 .. n : j # k => o[j] # o[k]
                          /\ \A j \in 1 .. n - 1 :
                                RLe(Mean(o[j]), Mean(o[j + 1])) } }

\* df.groupby(key)['view_count'].mean().sort_values(ascending=False): the
\* (group, mean) pairs, the means not increasing.  sort_values sorts with
\* quicksort, which does not fix the order of equal means: every order of
\* them is an outcome.
GroupMeansDescending(df, key) ==
    LET groups == Groups(df, key)
        n      == Cardinality(groups)
        Mean(g) == ColumnMean(df, "view_count", GroupRows(df, key, g))
    IN  { [k \in 1 .. n |-> <<order[k], Mean(order[k])>>] :
            order \in { o \in [1 .. n -> groups] :
                          /\ \A j, k \in 1 .. n : j # k => o[j] # o[k]
                          /\ \A j \in 1 .. n - 1 :
                                RLe(Mean(o[j + 1]), Mean(o[j])) } }

\* df.groupby('category_id').agg({...}).round(2)
CategoryStats(df) ==
    [ g \in Groups(df, "category_id") |->
        LET rows == GroupRows(df, "category_id", g)
        IN  [ view_count_mean    |-> Round(ColumnMean(df, "view_count", rows), 2),
              view_count_count   |-> Cardinality(rows),
              like_count_mean    |-> Round(ColumnMean(df, "like_count", rows), 2),
              comment_count_mean |-> Round(ColumnMean(df, "comment_count", rows), 2) ] ]

\* lines 86-88: the three columns written into the caller's DataFrame
WithDateColumns(df) ==
    SetColumn(
        SetColumn(
            SetColumn(df, "published_date",
                      LAMBDA row : to_datetime(row.published_at)),
            "published_day", LAMBDA row : day_name(row.published_date)),
        "published_hour", LAMBDA row : row.published_date.hour)

\* index[0] if len(...) > 0 else None
FirstIndex(series) == IF Len(series) > 0 THEN series[1][1] ELSE None

\* analyze_trends(videos_df): the set of its outcomes, each the returned
\* dict and the DataFrame as the call leaves it.
analyze_trends(df) ==
    IF empty(df)
    THEN { [ outcome |-> "returned", result |-> EmptyDict, df |-> df ] }
    ELSE LET dated == WithDateColumns(df)
         IN  { [ outcome |-> "returned",
                 result  |->
                   [ daily_trends        |-> daily_avg_views,
                     hourly_trends       |-> hourly_avg_views,
                     category_stats      |-> CategoryStats(dated),
                     total_videos        |-> Len(dated.rows),
                     avg_views           |->
                         ColumnMean(dated, "view_count",
                                    1 .. Len(dated.rows)),
                     top_performing_day  |-> FirstIndex(daily_avg_views),
                     optimal_upload_hour |-> FirstIndex(hourly_avg_views) ],
                 df |-> dated ] :
                 daily_avg_views \in
                     GroupMeansDescending(dated, "published_day"),
                 hourly_avg_views \in
                     GroupMeansDescending(dated, "published_hour") }

\* The columns analyze_trends reads of the records youtube_api builds, and
\* sample records: two Mondays, a Tuesday and a Wednesday, with equal mean
\* views on the three days when all are present.
TrendColumns ==
    <<"published_at", "category_id", "view_count", "like_count",
      "comment_count">>

TrendRows ==
    { [ published_at  |-> [year |-> 2024, month |-> 1, day |-> 1, hour |-> 10],
        category_id   |-> "10", view_count |-> 1000, like_count |-> 100,
        comment_count |-> 10 ],
      [ published_at  |-> [year |-> 2024, month |-> 1, day |-> 8, hour |-> 15],
        category_id   |-> "10", view_count |-> 3000, like_count |-> 50,
        comment_count |-> 0 ],
      [ published_at  |-> [year |-> 2024, month |-> 1, day |-> 2, hour |-> 10],
        category_id   |-> "24", view_count |-> 2000, like_count |-> 25,
        comment_count |-> 5 ],
      [ published_at  |-> [year |-> 2024, month |-> 2, day |-> 28, hour |-> 23],
        category_id   |-> "24", view_count |-> 2000, like_count |-> 0,
        comment_count |-> 1 ] }

\* pd.DataFrame(videos) for the lists of at most MaxRows records
MaxRows == 3

DataFrame(records) ==
    IF Len(records) = 0 THEN EmptyFrame
    ELSE [columns |-> TrendColumns, rows |-> records]

Frames ==
    UNION { {DataFrame(records) : records \in [1 .. n -> TrendRows]} :
              n \in 0 .. MaxRows }

NoTrends == [made |-> FALSE]

-----------------------------------------------------------------------------
(* ViralAnalyzer instances.  __init__ stores in self.thresholds the dict   *)
(* that config.VIRAL_THRESHOLDS names, not a copy of it: an instance's     *)
(* thresholds attribute is either that shared dict or, once a client has   *)
(* assigned the attribute, a dict of the instance's own.                   *)

\* ViralAnalyzer.__init__: self.thresholds = config.VIRAL_THRESHOLDS
NewViralAnalyzer == [shared |-> TRUE]

\* The dict an instance's thresholds attribute names.
Thresholds(a, config_dict) == IF a.shared THEN config_dict ELSE a.own

\* The values a client sets a threshold to.
ThresholdValues == [views_per_day |-> {RInt(10000), RInt(50000)}]

\* The videos the instances score, and the age at which they predict.
InstanceVideos ==
    { [ view_count |-> 7999, like_count |-> 10, comment_count |-> 8,
        published_at |-> [form |-> "iso_z", t |-> 0] ],
      [ view_count |-> 1000000, like_count |-> 50000, comment_count |-> 0,
        published_at |-> [form |-> "iso_z", t |-> 0] ] }

InstanceHours == 6

\* What an instance reports for a video: the viral score and the potential
\* score.
ScoresOf(th, v) ==
    [ viral_score |->
          calculate_viral_score(th, v, None, ClockStart).result.viral_score,
      viral_potential_score |->
          predict_viral_potential(th, v, InstanceHours)
              .result.viral_potential_score ]

\* The scores of every created instance for every video.
AllScores(instances, config_dict) ==
    [ i \in 1 .. Len(instances) |->
        [ v \in InstanceVideos |->
            ScoresOf(Thresholds(instances[i], config_dict), v) ] ]

MaxAnalyzers == 2

NoChange == [made |-> FALSE]

NoScore == [made |-> FALSE]

-----------------------------------------------------------------------------
(* The dashboard, app.py.  A run of the script either searches (the form   *)
(* was submitted with a keyword) or shows what the session state holds.    *)

\* The records search_videos returns: the text fields of the keyword
\* samples, the counts, and published_at both as the scorer and as
\* analyze_trends read it.  The third record has a published_at that does
\* not parse.
FoundVideo(id, texts, published_at, views, channel_id) ==
    texts @@
    [ video_id      |-> id,
      channel_id    |-> channel_id,
      published_at  |-> published_at,
      category_id   |-> "10",
      view_count    |-> views,
      like_count    |-> 10,
      comment_count |-> 8 ]

FoundVideos ==
    { FoundVideo("v1", Video_AlphaBeta,
                 [ form |-> "iso_z", t |-> 0, year |-> 2024, month |-> 1,
                   day |-> 1, hour |-> 10 ], 501, "ch_small"),
      FoundVideo("v2", Video_GammaDelta,
                 [ form |-> "iso_z", t |-> 0, year |-> 2024, month |-> 1,
                   day |-> 2, hour |-> 15 ], 7999, "ch_unknown"),
      FoundVideo("v3", Video_KoreanTitle,
                 [ form |-> "garbage", t |-> 0, year |-> 0, month |-> 0,
                   day |-> 0, hour |-> 0 ], 7999, "ch_small") }

\* collector.get_channel_info(channel_id): the channel's record, or {}
get_channel_info(channel_id) ==
    IF channel_id = "ch_small" THEN [subscriber_count |-> 2500]
    ELSE EmptyDict

\* The lists search_videos answers with, of at most MaxFound records.
MaxFound == 2

FoundLists ==
    UNION { [1 .. n -> FoundVideos] : n \in 0 .. MaxFound }

Orders == {"relevance", "viral_score"}

\* lines 181-188 for one video: the analysis, and the record with
\* viral_analysis and channel_info written into it
ScoreOf(th, v, clock) ==
    calculate_viral_score(th, v, get_channel_info(v.channel_id), clock)

WithAnalysis(th, v, clock) ==
    v @@ [ viral_analysis |-> ScoreOf(th, v, clock).result,
           channel_info   |-> get_channel_info(v.channel_id) ]

\* The first video of the list whose scoring raises; one past the end when
\* none does.
FirstFailure(th, found, clock) ==
    SetMin({i \in 1 .. Len(found) :
               ScoreOf(th, found[i], clock).outcome = "raised"}
             \cup {Len(found) + 1})

\* The list as the loop of lines 181-188 leaves it: the videos before the
\* first failure carry their analysis.
AfterScoring(th, found, clock) ==
    [ i \in 1 .. Len(found) |->
        IF i < FirstFailure(th, found, clock)
        THEN WithAnalysis(th, found[i], clock) ELSE found[i] ]

\* pd.DataFrame(videos), as far as analyze_trends reads it
FrameOf(list) ==
    DataFrame([ i \in 1 .. Len(list) |->
                  [ c \in Range(TrendColumns) |-> list[i][c] ] ])

\* lines 191-195: the analysis results of a scored list
AnalysesOf(an, list) ==
    { [ keyword_analysis |-> analyze_video_keywords(an, list).result,
        trend_analysis   |-> out.result ] :
        out \in analyze_trends(FrameOf(list)) }

\* line 199: sorted(videos, key=viral_score, reverse=True)
SortedByViralScore(list) ==
    LET Score(i) == list[i].viral_analysis.viral_score
        Place(i) ==
            Cardinality({j \in 1 .. Len(list) : RLt(Score(i), Score(j))})
              + Cardinality({j \in 1 .. i : REq(Score(j), Score(i))})
    IN  [ k \in 1 .. Len(list) |->
            list[CHOOSE i \in 1 .. Len(list) : Place(i) = k] ]

NoRun == [kind |-> "none"]

-----------------------------------------------------------------------------
(* youtube_api.search_videos: the pagination loop.  Of all_video_ids the   *)
(* model keeps the length.                                                 *)

\* The page size of the search API and the batch size of the detail lookup.
PageLimit == 50

\* A variant that always asks for a full page.
CurrentMax_FullPage(max_results, collected) == PageLimit

\* current_max = min(50, max_results - len(all_video_ids))
CurrentMax(max_results, collected) == IMin(PageLimit, max_results - collected)

\* if not next_page_token or len(all_video_ids) >= max_results: break
LoopBreaks(next_page_token, collected, max_results) ==
    ~next_page_token \/ collected >= max_results

\* len(all_video_ids[:max_results]), for max_results >= 0
SliceLen(collected, max_results) == IMin(collected, max_results)

\* The max_results a caller passes: the ends of the dashboard's slider, the
\* default, and one more than a page.
MaxResultsValues == {10, 50, 51, 100}

\* The number of items a page holds when maxResults were asked for: none,
\* one, or all that were asked for.
PageSizes(maxResults) == {k \in {0, 1, maxResults} : k <= maxResults}

\* The API returns at most MaxEmptyPages pages in a row that hold no item
\* but name a next page.
MaxEmptyPages == 2

NoPaging == [pc |-> "idle"]

NoRequest == [made |-> FALSE]

-----------------------------------------------------------------------------
(* The state machines.  The scorer's specifications leave the keyword      *)
(* extractor idle, and the extractor's specification leaves the scorer     *)
(* idle.                                                                   *)

\* ViralAnalyzer.__init__ and the record under analysis.
ScorerInit ==
    /\ thresholds = VIRAL_THRESHOLDS
    /\ video \in Videos
    /\ channel \in Channels
    /\ now = ClockStart
    /\ call = NoCall
    /\ prev = NoPrev

ScorerIdle ==
    /\ thresholds = VIRAL_THRESHOLDS
    /\ video = [ view_count |-> 0, like_count |-> 0, comment_count |-> 0,
                 published_at |-> [form |-> "iso_z", t |-> 0] ]
    /\ channel = None
    /\ now = ClockStart
    /\ call = NoCall
    /\ prev = NoPrev

\* The imports of keyword_analyzer.py, KeywordAnalyzer.__init__ and the
\* request under test.
KeywordInit ==
    /\ nltk \in {"absent", "ok", "no_data"}
    /\ konlpy \in {"absent", "ok", "failing"}
    /\ kwa = KeywordAnalyzerInit
    /\ request \in Requests
    /\ kwCall = NoKwCall
    /\ kwLog = {}

KeywordIdle ==
    /\ nltk = "absent"
    /\ konlpy = "absent"
    /\ kwa = KeywordAnalyzerInit
    /\ request \in OtherRequests
    /\ kwCall = NoKwCall
    /\ kwLog = {}

BatchIdle ==
    /\ videos = <<>>
    /\ analysis = NoAnalysis

TrendIdle ==
    /\ videos_df = EmptyFrame
    /\ trends = NoTrends

InstancesIdle ==
    /\ config_thresholds = VIRAL_THRESHOLDS
    /\ analyzers = <<>>
    /\ change = NoChange
    /\ scored = NoScore

\* app.py lines 38-44: the session state of a new session
SessionInit ==
    /\ search_results = <<>>
    /\ analysis_results = EmptyDict
    /\ last_search_params = EmptyDict
    /\ current_order = "unset"
    /\ run = NoRun

AppIdle == InstancesIdle /\ SessionInit /\ paging = NoPaging

Init == ScorerInit /\ KeywordIdle /\ BatchIdle /\ TrendIdle /\ AppIdle

\* The wall clock advances.
Tick ==
    /\ now < MaxTime
    /\ now' = now + 1
    /\ UNCHANGED <<thresholds, video, channel, call, prev, keywordVars, batchVars, trendVars, appVars>>

\* analyzer.calculate_viral_score(video, channel_info)
CalculateViralScore ==
    /\ call' = [at |-> now] @@ calculate_viral_score(thresholds, video, channel, now)
    /\ UNCHANGED <<thresholds, video, channel, now, prev, keywordVars, batchVars, trendVars, appVars>>

\* analyzer.predict_viral_potential(video, hours_since_upload)
PredictViralPotential ==
    /\ \E h \in HoursSinceUpload :
          call' = [at |-> now] @@ predict_viral_potential(thresholds, video, h)
    /\ UNCHANGED <<thresholds, video, channel, now, prev, keywordVars, batchVars, trendVars, appVars>>

\* The platform reports new statistics for the video: one count changes.  The
\* analysis made of the old record is remembered by its metrics only.
StatsChange ==
    /\ \E f \in {"view_count", "like_count", "comment_count"} :
         \E n \in (CASE f = "view_count" -> ViewCounts
                     [] f = "like_count" -> LikeCounts
                     [] OTHER -> CommentCounts) :
            /\ n # video[f]
            /\ video' = [video EXCEPT ![f] = n]
    /\ prev' = IF Scored THEN Metrics(call) ELSE prev
    /\ call' = NoCall
    /\ UNCHANGED <<thresholds, channel, now, keywordVars, batchVars, trendVars, appVars>>

Next == Tick \/ CalculateViralScore \/ PredictViralPotential

Spec == Init /\ [][Next]_vars

\* Two analyses of one video whose statistics change in between, without a
\* channel record.
MonoInit ==
    /\ Init
    /\ IsNone(channel)
    /\ video.published_at.form = "iso_z"

MonoNext == Tick \/ CalculateViralScore \/ StatsChange

MonoSpec == MonoInit /\ [][MonoNext]_vars

\* keyword_analyzer.extract_keywords_from_text(text, language, max_keywords),
\* on the request under test or on another one.
ExtractKeywords ==
    /\ \E r \in {request} \cup OtherRequests :
          LET out == extract_keywords_from_text(kwa, r.text, r.language,
                                                r.max_keywords)
          IN  /\ kwCall' = [ made     |-> TRUE,
                             request  |-> r,
                             repeated |-> \E p \in kwLog : p[1] = r,
                             path     |-> out.path,
                             outcome  |-> out.outcome,
                             language |-> out.language,
                             filtered_words |-> out.filtered_words,
                             keywords |-> out.keywords ]
              /\ kwLog' = kwLog \cup {<<r, out.keywords>>}
    /\ UNCHANGED <<nltk, konlpy, kwa, request, scorerVars, batchVars, trendVars, appVars>>

KeywordSpecInit ==
    ScorerIdle /\ KeywordInit /\ BatchIdle /\ TrendIdle /\ AppIdle

KeywordNext == ExtractKeywords

KeywordSpec == KeywordSpecInit /\ [][KeywordNext]_vars

\* keyword_analyzer.analyze_video_keywords(videos)
AnalyzeVideoKeywords ==
    /\ analysis' = analyze_video_keywords(kwa, videos)
    /\ UNCHANGED <<videos, scorerVars, keywordVars, trendVars, appVars>>

\* The libraries as the import found them, the analyzer, and a batch.
BatchInit ==
    /\ ScorerIdle
    /\ nltk \in {"absent", "ok", "no_data"}
    /\ konlpy \in {"absent", "ok", "failing"}
    /\ kwa = KeywordAnalyzerInit
    /\ request \in OtherRequests
    /\ kwCall = NoKwCall
    /\ kwLog = {}
    /\ videos \in Batches
    /\ analysis = NoAnalysis
    /\ TrendIdle
    /\ AppIdle

BatchNext == AnalyzeVideoKeywords

BatchSpec == BatchInit /\ [][BatchNext]_vars

\* analyzer.analyze_trends(videos_df)
AnalyzeTrends ==
    /\ \E out \in analyze_trends(videos_df) :
          /\ trends' = [ made    |-> TRUE,
                         outcome |-> out.outcome,
                         result  |-> out.result,
                         rows    |-> Len(videos_df.rows),
                         columns |-> videos_df.columns ]
          /\ videos_df' = out.df
    /\ UNCHANGED <<scorerVars, keywordVars, batchVars, appVars>>

TrendInit ==
    /\ ScorerIdle
    /\ KeywordIdle
    /\ BatchIdle
    /\ videos_df \in Frames
    /\ trends = NoTrends
    /\ AppIdle

TrendNext == AnalyzeTrends

TrendSpec == TrendInit /\ [][TrendNext]_vars

\* analyzer = ViralAnalyzer()
CreateAnalyzer ==
    /\ Len(analyzers) < MaxAnalyzers
    /\ analyzers' = Append(analyzers, NewViralAnalyzer)
    /\ UNCHANGED <<config_thresholds, change, scored>>
    /\ UNCHANGED <<scorerVars, keywordVars, batchVars, trendVars, sessionVars,
                   paging>>

\* A client writes analyzer.thresholds[key] = value: the dict the attribute
\* names is updated in place.
SetThreshold ==
    /\ \E i \in 1 .. Len(analyzers) :
       \E key \in DOMAIN ThresholdValues :
       \E value \in ThresholdValues[key] :
          /\ Thresholds(analyzers[i], config_thresholds)[key] # value
          /\ IF analyzers[i].shared
             THEN /\ config_thresholds' =
                        [config_thresholds EXCEPT ![key] = value]
                  /\ UNCHANGED analyzers
             ELSE /\ analyzers' =
                        [analyzers EXCEPT ![i].own[key] = value]
                  /\ UNCHANGED config_thresholds
          /\ change' = [ made   |-> TRUE,
                         by     |-> i,
                         how    |-> "item",
                         before |-> AllScores(analyzers, config_thresholds) ]
    /\ UNCHANGED scored
    /\ UNCHANGED <<scorerVars, keywordVars, batchVars, trendVars, sessionVars,
                   paging>>

\* A client writes analyzer.thresholds = {...}: the attribute names a dict of
\* the instance's own from then on.
ReplaceThresholds ==
    /\ \E i \in 1 .. Len(analyzers) :
       \E key \in DOMAIN ThresholdValues :
       \E value \in ThresholdValues[key] :
          /\ Thresholds(analyzers[i], config_thresholds)[key] # value
          /\ analyzers' =
                [analyzers EXCEPT ![i] =
                    [ shared |-> FALSE,
                      own    |-> [Thresholds(analyzers[i], config_thresholds)
                                     EXCEPT ![key] = value] ]]
          /\ change' = [ made   |-> TRUE,
                         by     |-> i,
                         how    |-> "attribute",
                         before |-> AllScores(analyzers, config_thresholds) ]
    /\ UNCHANGED <<config_thresholds, scored>>
    /\ UNCHANGED <<scorerVars, keywordVars, batchVars, trendVars, sessionVars,
                   paging>>

\* analyzer.calculate_viral_score(video) and
\* analyzer.predict_viral_potential(video, hours) on one instance
ScoreWithInstance ==
    /\ \E i \in 1 .. Len(analyzers) : \E v \in InstanceVideos :
          scored' = [ made   |-> TRUE,
                      by     |-> i,
                      video  |-> v,
                      scores |-> ScoresOf(Thresholds(analyzers[i],
                                                     config_thresholds), v) ]
    /\ UNCHANGED <<config_thresholds, analyzers, change>>
    /\ UNCHANGED <<scorerVars, keywordVars, batchVars, trendVars, sessionVars,
                   paging>>

InstanceInit ==
    /\ ScorerIdle
    /\ KeywordIdle
    /\ BatchIdle
    /\ TrendIdle
    /\ AppIdle

InstanceNext ==
    \/ CreateAnalyzer
    \/ SetThreshold
    \/ ReplaceThresholds
    \/ ScoreWithInstance

InstanceSpec == InstanceInit /\ [][InstanceNext]_vars

\* A run of main() with the search form submitted (lines 135-205): the
\* collector answers with the list found.
SearchRun ==
    /\ \E found \in FoundLists : \E order \in Orders :
         LET scored_list == AfterScoring(config_thresholds, found, now)
             failed ==
                 FirstFailure(config_thresholds, found, now) <= Len(found)
             before == [ search_results   |-> search_results,
                         analysis_results |-> analysis_results ]
         IN  /\ last_search_params' = [order |-> order]
             /\ IF found = <<>>
                THEN /\ run' = [ kind |-> "search", found |-> found,
                                 outcome |-> "completed", before |-> before ]
                     /\ UNCHANGED <<search_results, analysis_results,
                                    current_order>>
                ELSE /\ current_order' = order
                     /\ IF failed
                        THEN /\ search_results' = scored_list
                             /\ UNCHANGED analysis_results
                             /\ run' = [ kind |-> "search", found |-> found,
                                         outcome |-> "raised",
                                         before |-> before ]
                        ELSE /\ analysis_results' \in AnalysesOf(kwa, scored_list)
                             /\ search_results' =
                                    IF order = "viral_score"
                                    THEN SortedByViralScore(scored_list)
                                    ELSE scored_list
                             /\ run' = [ kind |-> "search", found |-> found,
                                         outcome |-> "completed",
                                         before |-> before ]
    /\ UNCHANGED <<scorerVars, keywordVars, batchVars, trendVars, instanceVars,
                   paging>>

\* A run of main() without a search (lines 207-235): the stored results are
\* displayed, or the welcome text when there are none.
DisplayRun ==
    /\ run' = [ kind |-> IF search_results # <<>> THEN "display" ELSE "welcome",
                found |-> <<>>, outcome |-> "completed",
                before |-> [ search_results   |-> search_results,
                             analysis_results |-> analysis_results ] ]
    /\ UNCHANGED <<search_results, analysis_results, last_search_params,
                   current_order>>
    /\ UNCHANGED <<scorerVars, keywordVars, batchVars, trendVars, instanceVars,
                   paging>>

DashboardInit ==
    /\ ScorerIdle
    /\ KeywordIdle
    /\ BatchIdle
    /\ TrendIdle
    /\ AppIdle

DashboardNext == SearchRun \/ DisplayRun

DashboardSpec == DashboardInit /\ [][DashboardNext]_vars

\* One turn of the loop of lines 44-78: the request for a page, the answer
\* (items and perhaps a nextPageToken), and the test that leaves the loop.
RequestPage ==
    /\ paging.pc = "while"
    /\ paging.all_video_ids < paging.max_results
    /\ LET current_max == CurrentMax(paging.max_results, paging.all_video_ids)
       IN  \E items \in PageSizes(current_max) : \E token \in BOOLEAN :
              /\ (items = 0 /\ token) => paging.empty_pages < MaxEmptyPages
              /\ paging' =
                   [ paging EXCEPT
                       !.all_video_ids = @ + items,
                       !.next_page_token = token,
                       !.empty_pages =
                           IF items = 0 /\ token THEN @ + 1 ELSE 0,
                       !.request =
                           [ made       |-> TRUE,
                             maxResults |-> current_max,
                             collected  |-> paging.all_video_ids,
                             pageToken  |-> paging.next_page_token,
                             items      |-> items,
                             nextPageToken |-> token ],
                       !.pc = IF LoopBreaks(token, paging.all_video_ids + items,
                                            paging.max_results)
                              THEN "slice" ELSE "while" ]
    /\ UNCHANGED <<scorerVars, keywordVars, batchVars, trendVars,
                   instanceVars, sessionVars>>

\* The request of a page raises HttpError: search_videos returns [].
RequestFails ==
    /\ paging.pc = "while"
    /\ paging.all_video_ids < paging.max_results
    /\ paging' = [ paging EXCEPT !.pc = "done", !.outcome = "http_error",
                                 !.passed = 0 ]
    /\ UNCHANGED <<scorerVars, keywordVars, batchVars, trendVars,
                   instanceVars, sessionVars>>

\* lines 80-87: the list is cut to max_results and handed to
\* get_video_details.
GetVideoDetails ==
    /\ \/ paging.pc = "slice"
       \/ paging.pc = "while" /\ paging.all_video_ids >= paging.max_results
    /\ paging' =
         [ paging EXCEPT
             !.pc = "done", !.outcome = "returned",
             !.passed = SliceLen(paging.all_video_ids, paging.max_results) ]
    /\ UNCHANGED <<scorerVars, keywordVars, batchVars, trendVars,
                   instanceVars, sessionVars>>

\* search_videos(query, max_results) is entered.
PagingInit ==
    /\ ScorerIdle
    /\ KeywordIdle
    /\ BatchIdle
    /\ TrendIdle
    /\ InstancesIdle
    /\ SessionInit
    /\ \E m \in MaxResultsValues :
          paging = [ pc |-> "while", max_results |-> m, all_video_ids |-> 0,
                     next_page_token |-> FALSE, empty_pages |-> 0,
                     request |-> NoRequest, passed |-> 0,
                     outcome |-> "running" ]

PagingNext == RequestPage \/ RequestFails \/ GetVideoDetails

\* The call keeps running until it returns.
PagingSpec == PagingInit /\ [][PagingNext]_vars /\ WF_vars(PagingNext)

-----------------------------------------------------------------------------
(* Properties of calculate_viral_score.                                    *)

ComponentNames ==
    {"views_per_day_score", "like_ratio_score", "comment_ratio_score",
     "engagement_score"}

\* The threshold a sub-score is measured against.
ThresholdOf(th, m) ==
    CASE m = "views_per_day_score" -> th.views_per_day
      [] m = "like_ratio_score"    -> th.like_ratio
      [] m = "comment_ratio_score" -> th.comment_ratio
      [] OTHER                     -> th.engagement_score

\* S + B: the four returned sub-scores added up, plus the bonus applied.
RawTotal ==
    LET sc == call.result.score_components
    IN  RAdd(RAdd(RAdd(sc.views_per_day_score, sc.like_ratio_score),
                  RAdd(sc.comment_ratio_score, sc.engagement_score)),
             call.locals.bonus)

\* published_at can be parsed as a timestamp.
Parseable(v) == v.published_at.form \in {"iso_z", "iso_offset", "iso_naive"}

\* The age of the video when the call read the clock, in ticks.
AgeAtCall == call.at - video.published_at.t

\* C1: for every video with non-negative counts and a parseable published_at,
\* with or without a channel record, the returned viral_score is in [0, 100].
C1_ViralScoreInRange ==
    (call.op = "calculate_viral_score" /\ Parseable(video)) =>
        /\ call.outcome = "returned"
        /\ RLe(RInt(0), call.result.viral_score)
        /\ RLe(call.result.viral_score, RInt(100))

\* C1 witness: a call whose sub-scores plus bonus exceed 100 and whose score
\* is reported as 100.
C1_Witness ==
    /\ Scored
    /\ RLt(RInt(100), RawTotal)
    /\ call.result.viral_score = RInt(100)

\* C2 (as claimed): is_viral is true iff the viral_score field of the same
\* result is >= 70.
C2_IsViralMatchesReportedScore ==
    Scored => (call.result.is_viral <=> RLe(RInt(70), call.result.viral_score))

\* C3: days_since_published is an integer >= 1 whenever published_at parses;
\* a video published less than a day before the call, at the instant of the
\* call, or after it, counts 1 day.
C3_DaysAtLeastOne ==
    (call.op = "calculate_viral_score" /\ Parseable(video)) =>
        /\ call.outcome = "returned"
        /\ call.result.days_since_published \in Nat
        /\ call.result.days_since_published >= 1
        /\ (AgeAtCall < TicksPerDay => call.result.days_since_published = 1)

\* C3 witness: a video whose published_at is later than the clock of the call
\* counts 1 day.
C3_Witness ==
    /\ Scored
    /\ AgeAtCall < 0
    /\ call.result.days_since_published = 1

\* C4: each sub-score is in [0, 25], is exactly 25 when its raw metric is at
\* or above its threshold, and does not decrease from one analysis of a video
\* to the next when the raw metric does not decrease.
C4_SubScores ==
    Scored =>
        \A m \in ComponentNames :
            LET sc  == call.result.score_components[m]
                raw == Metrics(call).raw[m]
            IN  /\ RLe(RInt(0), sc)
                /\ RLe(sc, RInt(25))
                /\ (RLe(ThresholdOf(thresholds, m), raw) => sc = RInt(25))
                /\ (prev.set /\ RLe(prev.raw[m], raw)
                        => RLe(prev.score_components[m], sc))

\* C4 witness: between two analyses one raw metric grew below its threshold
\* and its sub-score grew, while another metric is above its threshold and
\* scores 25.
C4_Witness ==
    /\ Scored
    /\ prev.set
    /\ \E m \in ComponentNames :
          /\ RLt(prev.raw[m], Metrics(call).raw[m])
          /\ RLt(prev.score_components[m], call.result.score_components[m])
          /\ RLt(call.result.score_components[m], RInt(25))
    /\ \E m \in ComponentNames :
          /\ RLt(ThresholdOf(thresholds, m), Metrics(call).raw[m])
          /\ call.result.score_components[m] = RInt(25)

\* C5 (as claimed): the returned viral_score equals min(100, S + B).
C5_ScoreIsClampedTotal ==
    Scored => call.result.viral_score = RMin(RInt(100), RawTotal)

\* C5 (amended): the score before the final rounding equals min(100, S + B),
\* and the returned viral_score is that value rounded to two decimals: it
\* differs from min(100, S + B) by at most 0.005.
C5_ScoreIsRoundedClampedTotal ==
    Scored =>
        LET clamped == RMin(RInt(100), RawTotal)
        IN  /\ call.locals.viral_score = clamped
            /\ call.result.viral_score = Round(clamped, 2)
            /\ RLe(call.result.viral_score, RAdd(clamped, Rat(5, 1000)))
            /\ RLe(clamped, RAdd(call.result.viral_score, Rat(5, 1000)))

\* C5 witness: a bonus was applied, the total is below 100 and the rounding
\* changed the score.
C5_Witness ==
    /\ Scored
    /\ RLt(RInt(0), call.locals.bonus)
    /\ RLt(RawTotal, RInt(100))
    /\ call.result.viral_score # RawTotal

\* C6 (as claimed): the bonus is 0 when no channel record is supplied, when
\* subscriber_count is 0 or absent, or when the reported
\* channel_performance_ratio is <= 2; in the first two cases the reported
\* ratio is 1.0.
C6_NoBonusJudgedOnReportedRatio ==
    Scored =>
        LET noChannel == ~Truthy(channel)
            noSubs    == Truthy(channel) /\ Get(channel, "subscriber_count", 0) = 0
        IN  /\ (noChannel \/ noSubs
                  \/ RLe(call.result.channel_performance_ratio, RInt(2)))
                    => call.locals.bonus = RInt(0)
            /\ (noChannel \/ noSubs)
                    => call.result.channel_performance_ratio = RInt(1)

\* C7: default thresholds, 1,000,000 views, 50,000 likes, 2,000 comments,
\* published one day ago, no channel record: views_per_day 1,000,000,
\* engagement_score 600, four sub-scores of 25, viral_score 100, is_viral.
C7_Scenario ==
    ( /\ call.op = "calculate_viral_score"
      /\ thresholds = VIRAL_THRESHOLDS
      /\ video.view_count = 1000000
      /\ video.like_count = 50000
      /\ video.comment_count = 2000
      /\ Parseable(video)
      /\ AgeAtCall = TicksPerDay
      /\ IsNone(channel) ) =>
        /\ call.outcome = "returned"
        /\ call.result.views_per_day = RInt(1000000)
        /\ call.result.engagement_score = RInt(600)
        /\ \A m \in ComponentNames :
              call.result.score_components[m] = RInt(25)
        /\ call.result.viral_score = RInt(100)
        /\ call.result.is_viral

\* C7 witness: the scenario's call has been made.
C7_Witness ==
    /\ Scored
    /\ video.view_count = 1000000
    /\ video.like_count = 50000
    /\ video.comment_count = 2000
    /\ AgeAtCall = TicksPerDay
    /\ IsNone(channel)
    /\ call.result.viral_score = RInt(100)

C9_UnparseableRaises ==
    (call.op = "calculate_viral_score" /\ ~Parseable(video)) =>
        /\ call.outcome = "raised"
        /\ call.error = "ValueError"
        /\ "result" \notin DOMAIN call

\* C9 witness: a call on a video with an unreadable published_at raised.
C9_Witness ==
    /\ call.op = "calculate_viral_score"
    /\ video.published_at.form = "garbage"
    /\ call.outcome = "raised"

-----------------------------------------------------------------------------
(* Properties of the keyword extractor.                                    *)

CallText == kwCall.request.text

CallHasText == IsStr(CallText) /\ CallText.chars # <<>>

\* C12: on the simple path the text "youtube youtube test case case case"
\* yields "case" with count 3 first, "test" with count 1 after it when
\* max_keywords leaves room for it, and never "youtube".
C12_SimplePathExample ==
    ( /\ kwCall.made
      /\ kwCall.path = "simple"
      /\ CallText = [type |-> "str", chars |-> Text_YoutubeTestCase] )
    => /\ kwCall.keywords =
              SubSeq(<< <<(<<"c", "a", "s", "e">>), 3>>,
                        <<(<<"t", "e", "s", "t">>), 1>> >>,
                     1, IMin(2, kwCall.request.max_keywords))
       /\ \A k \in 1 .. Len(kwCall.keywords) :
              kwCall.keywords[k][1] # <<"y", "o", "u", "t", "u", "b", "e">>

\* C12 witness: the example was run on the simple path with room for both
\* keywords.
C12_Witness ==
    /\ kwCall.made
    /\ kwCall.path = "simple"
    /\ CallText = [type |-> "str", chars |-> Text_YoutubeTestCase]
    /\ Len(kwCall.keywords) = 2

\* C14: extract_keywords_from_text never raises; None, a value that is no
\* text and the empty text give the empty list; and when the library of the
\* path the call selects fails, the call returns what the simple path
\* returns.
C14_NeverRaises ==
    kwCall.made =>
        /\ kwCall.outcome = "returned"
        /\ ~CallHasText => kwCall.keywords = <<>>
        /\ ( /\ CallHasText
             /\ \/ kwCall.language = "ko" /\ kwa.okt # "None"
                     /\ konlpy = "failing"
                \/ ~(kwCall.language = "ko" /\ kwa.okt # "None")
                     /\ nltk = "no_data" )
           => /\ kwCall.path = "simple"
              /\ kwCall.keywords =
                   extract_simple_keywords(kwa, CallText.chars,
                       kwCall.request.max_keywords).keywords

\* C14 witness: the Korean analysis raised and the call returned keywords.
C14_Witness ==
    /\ kwCall.made
    /\ CallHasText
    /\ kwCall.language = "ko"
    /\ konlpy = "failing"
    /\ kwCall.outcome = "returned"
    /\ kwCall.keywords # <<>>

\* The number of times the filters accepted the term in the last call, and
\* the place of its first acceptance.
Occurrences(term) ==
    Cardinality({i \in 1 .. Len(kwCall.filtered_words) :
                    kwCall.filtered_words[i] = term})

FirstSeen(term) ==
    CHOOSE i \in 1 .. Len(kwCall.filtered_words) :
        /\ kwCall.filtered_words[i] = term
        /\ \A j \in 1 .. i - 1 : kwCall.filtered_words[j] # term

\* C15: a returned list has at most max_keywords entries, each with the
\* number of accepted occurrences of its term, which is at least 1; counts do
\* not increase along the list, and terms of equal count stand in the order
\* of their first occurrence.
C15_RankedList ==
    kwCall.made =>
        LET kws == kwCall.keywords
        IN  /\ Len(kws) <= kwCall.request.max_keywords
            /\ \A k \in 1 .. Len(kws) :
                  /\ kws[k][2] >= 1
                  /\ kws[k][2] = Occurrences(kws[k][1])
            /\ \A j \in 1 .. Len(kws) : \A k \in j + 1 .. Len(kws) :
                  /\ kws[j][2] >= kws[k][2]
                  /\ kws[j][2] = kws[k][2]
                       => FirstSeen(kws[j][1]) < FirstSeen(kws[k][1])

\* C15 witness: a list with two terms of equal count and a third of a lower
\* count.
C15_Witness ==
    /\ kwCall.made
    /\ Len(kwCall.keywords) >= 3
    /\ kwCall.keywords[1][2] = kwCall.keywords[2][2]
    /\ kwCall.keywords[2][2] > kwCall.keywords[3][2]

\* The Hangul syllables and the Latin letters of the last call's text.
HangulCount ==
    Cardinality({i \in 1 .. Len(CallText.chars) :
                    CallText.chars[i] \in HangulSyllables})

LatinCount ==
    Cardinality({i \in 1 .. Len(CallText.chars) :
                    CallText.chars[i] \in LowerLetters \cup UpperLetters})

\* C16: language detection answers English for a text without Hangul
\* syllables and Latin letters, and otherwise Korean exactly when the Hangul
\* share of those letters is above 0.30 (10 x Hangul > 3 x letters).
C16_DetectLanguage ==
    (kwCall.made /\ CallHasText /\ kwCall.request.language = "auto")
    => kwCall.language =
         (IF HangulCount + LatinCount = 0 THEN "en"
          ELSE IF 10 * HangulCount > 3 * (HangulCount + LatinCount)
               THEN "ko" ELSE "en")

\* C16 witness: a text of 3 Hangul syllables and 7 Latin letters was found
\* to be English.
C16_Witness ==
    /\ kwCall.made
    /\ CallHasText
    /\ kwCall.request.language = "auto"
    /\ HangulCount = 3
    /\ LatinCount = 7
    /\ kwCall.language = "en"

\* C17: when the library of the selected language is not available the
\* simple path does the extraction: Korean without KoNLPy, English without
\* NLTK.
C17_FallbackIsSimple ==
    (kwCall.made /\ CallHasText)
    => /\ (kwCall.language = "ko" /\ ~KONLPY_AVAILABLE)
              => kwCall.path = "simple"
       /\ (kwCall.language = "en" /\ ~NLTK_AVAILABLE)
              => kwCall.path = "simple"

\* The URL-fragment heuristic, as the policy words it.
LooksLikeUrl(w) ==
    \/ \E pre \in {<<"w", "w", "w">>, <<"h", "t", "t", "p">>} :
          Len(w) >= Len(pre) /\ SubSeq(w, 1, Len(pre)) = pre
    \/ \E suf \in { <<".", "c", "o", "m">>, <<".", "n", "e", "t">>,
                    <<".", "o", "r", "g">>, <<".", "k", "r">>,
                    <<".", "c", "o">> } :
          Len(w) >= Len(suf)
            /\ SubSeq(w, Len(w) - Len(suf) + 1, Len(w)) = suf
    \/ \E inner \in { <<"y", "o", "u", "t", "u", "b", "e">>,
                      <<"y", "o", "u", "t", "u", ".", "b", "e">> } :
          \E i \in 1 .. Len(w) - Len(inner) + 1 :
              SubSeq(w, i, i + Len(inner) - 1) = inner

-----------------------------------------------------------------------------
(* Properties of analyze_video_keywords.                                   *)

\* The (term, number) entries of a list as a set, and its terms in order.
Entries(list) == {list[k] : k \in 1 .. Len(list)}

Terms(list) == [k \in 1 .. Len(list) |-> list[k][1]]

\* The number of the batch's tags that spell the term, in any letter case.
TagUses(term) ==
    Cardinality({i \in 1 .. Len(analysis.locals.all_tags) :
                    lower(analysis.locals.all_tags[i]) = term})

\* C11: a term that is a title keyword once, a description keyword once and a
\* tag once, in whatever letter case the tag is written, has the weight
\* 3 + 1 + 2 = 6 in combined_keywords.
C11_OnceEachWeighsSix ==
    analysis.made =>
        \A e \in Entries(analysis.result.title_keywords) :
            ( /\ e[2] = 1
              /\ e \in Entries(analysis.result.description_keywords)
              /\ TagUses(e[1]) = 1 )
            => <<e[1], 6>> \in Entries(analysis.result.combined_keywords)

\* C19: the result holds at most 30 title keywords, 30 description keywords,
\* 20 tags and 50 combined keywords, total_videos_analyzed is the number of
\* records, and the call returns for records without tags, title or
\* description as for records with empty ones.
C19_ResultCaps ==
    analysis.made =>
        /\ analysis.outcome = "returned"
        /\ Len(analysis.result.title_keywords) <= 30
        /\ Len(analysis.result.description_keywords) <= 30
        /\ Len(analysis.result.top_tags) <= 20
        /\ Len(analysis.result.combined_keywords) <= 50
        /\ analysis.result.total_videos_analyzed = Len(videos)

\* C19 witness: a batch with a record without fields and a record with more
\* words and tags than the lists keep was analyzed, and every list is full.
C19_Witness ==
    /\ analysis.made
    /\ \E i \in 1 .. Len(videos) : DOMAIN videos[i] = {}
    /\ Len(analysis.result.title_keywords) = 30
    /\ Len(analysis.result.description_keywords) = 30
    /\ Len(analysis.locals.all_tags) > 20
    /\ Len(analysis.result.top_tags) = 20
    /\ Len(analysis.result.combined_keywords) = 50
    /\ analysis.result.total_videos_analyzed = 2

\* The merge sequence: the title keywords, then the description keywords,
\* then the tags; the place at which a term enters it; and the order of
\* combined_keywords: the higher weight first, of equal weights the term that
\* entered first.
MergeSequence ==
    Terms(analysis.result.title_keywords)
      \o Terms(analysis.result.description_keywords)
      \o Terms(analysis.result.top_tags)

EntersAt(term) ==
    CHOOSE i \in 1 .. Len(MergeSequence) :
        /\ MergeSequence[i] = term
        /\ \A j \in 1 .. i - 1 : MergeSequence[j] # term

RanksBefore(e, f) ==
    \/ e[2] > f[2]
    \/ e[2] = f[2] /\ EntersAt(e[1]) < EntersAt(f[1])

\* C20: combined_keywords lists entries of the combined map by weight, not
\* increasing, equal weights in the order of first insertion, and it holds
\* the first 50 entries of that order: all of them when there are at most 50,
\* and otherwise 50 entries that each rank before every entry left out.
C20_CombinedOrder ==
    analysis.made =>
        LET top == analysis.result.combined_keywords
            all == analysis.locals.all_keywords
        IN  /\ Entries(top) \subseteq Entries(all)
            /\ Len(top) = IMin(50, Len(all))
            /\ \A j \in 1 .. Len(top) : \A k \in j + 1 .. Len(top) :
                   RanksBefore(top[j], top[k])
            /\ \A e \in Entries(top) : \A f \in Entries(all) \ Entries(top) :
                   RanksBefore(e, f)

\* C20 witness: more than 50 terms were merged, the first two kept entries
\* have equal weights, and a kept term of the tags was inserted after a term
\* of the descriptions that is left out.
C20_Witness ==
    /\ analysis.made
    /\ Len(analysis.locals.all_keywords) > 50
    /\ Len(analysis.result.combined_keywords) = 50
    /\ analysis.result.combined_keywords[1][2]
         = analysis.result.combined_keywords[2][2]
    /\ \E e \in Entries(analysis.result.combined_keywords) :
       \E f \in Entries(analysis.locals.all_keywords)
                  \ Entries(analysis.result.combined_keywords) :
          EntersAt(e[1]) > EntersAt(f[1])

\* The number an entry list gives a term, 0 when it has no entry for it.
NumberOf(list, term) ==
    IF \E k \in 1 .. Len(list) : list[k][1] = term
    THEN (CHOOSE e \in Entries(list) : e[1] = term)[2]
    ELSE 0

\* The number of the batch's flattened tags equal to the term.
TagFrequency(term) ==
    Cardinality({i \in 1 .. Len(analysis.locals.all_tags) :
                    analysis.locals.all_tags[i] = term})

\* C21: the weight of every term in the combined map is 3 x its frequency as
\* a title keyword + its frequency as a description keyword + 2 x its
\* frequency among all the tags of the batch, the 20 most frequent or not.
C21_WeightOfEveryTerm ==
    analysis.made =>
        \A term \in { e[1] : e \in Entries(analysis.result.title_keywords)
                               \cup Entries(analysis.result.description_keywords) }
                      \cup { analysis.locals.all_tags[i] :
                               i \in 1 .. Len(analysis.locals.all_tags) } :
            NumberOf(analysis.locals.all_keywords, term)
              = 3 * NumberOf(analysis.result.title_keywords, term)
                  + NumberOf(analysis.result.description_keywords, term)
                  + 2 * TagFrequency(term)

-----------------------------------------------------------------------------
(* Properties of analyze_trends.                                           *)

\* The rows of the analyzed collection published on a day of the week or in
\* an hour of the day, and their views.
RowsOfDay(d) ==
    {i \in 1 .. Len(videos_df.rows) :
        day_name(videos_df.rows[i].published_at) = d}

RowsOfHour(h) ==
    {i \in 1 .. Len(videos_df.rows) : videos_df.rows[i].published_at.hour = h}

ViewsOf(rows) == SetSum({<<i, videos_df.rows[i].view_count>> : i \in rows})

\* The mean views of rows a are at most the mean views of rows b.
MeanAtMost(a, b) ==
    ViewsOf(a) * Cardinality(b) <= ViewsOf(b) * Cardinality(a)

\* A series lists each group once with its mean views, the means not
\* increasing, and the group reported is one of maximal mean.
RankedByMean(series, reported, groups, RowsOf(_)) ==
    /\ Len(series) = Cardinality(groups)
    /\ {series[k][1] : k \in 1 .. Len(series)} = groups
    /\ \A k \in 1 .. Len(series) :
          series[k][2] = Rat(ViewsOf(RowsOf(series[k][1])),
                             Cardinality(RowsOf(series[k][1])))
    /\ \A k \in 1 .. Len(series) - 1 :
          MeanAtMost(RowsOf(series[k + 1][1]), RowsOf(series[k][1]))
    /\ reported \in groups
    /\ \A g \in groups : MeanAtMost(RowsOf(g), RowsOf(reported))

\* C23: for a non-empty batch, total_videos is the number of records,
\* top_performing_day is a day-of-week group of maximal mean view_count,
\* optimal_upload_hour is an hour-of-day group of maximal mean view_count,
\* and daily_trends and hourly_trends list the groups by mean views, not
\* increasing.
C23_TrendsOfBatch ==
    (trends.made /\ trends.rows > 0) =>
        /\ trends.outcome = "returned"
        /\ trends.result.total_videos = trends.rows
        /\ RankedByMean(trends.result.daily_trends,
                        trends.result.top_performing_day,
                        {d \in Range(DayNames) : RowsOfDay(d) # {}},
                        RowsOfDay)
        /\ RankedByMean(trends.result.hourly_trends,
                        trends.result.optimal_upload_hour,
                        {h \in 0 .. 23 : RowsOfHour(h) # {}},
                        RowsOfHour)

\* C23 witness: three records on two days and in two hours were analyzed;
\* Monday and 15 h have the strictly highest means.
C23_Witness ==
    /\ trends.made
    /\ trends.rows = 3
    /\ trends.result.total_videos = 3
    /\ Len(trends.result.daily_trends) = 2
    /\ trends.result.top_performing_day = "Monday"
    /\ RLt(trends.result.daily_trends[2][2], trends.result.daily_trends[1][2])
    /\ Len(trends.result.hourly_trends) = 2
    /\ trends.result.optimal_upload_hour = 15
    /\ RLt(trends.result.hourly_trends[2][2], trends.result.hourly_trends[1][2])

\* C13: analyze_trends on an empty video collection raises no exception and
\* returns a result in which total_videos is 0 and top_performing_day is
\* None.
C13_EmptyCollection ==
    (trends.made /\ trends.rows = 0) =>
        /\ trends.outcome = "returned"
        /\ "total_videos" \in DOMAIN trends.result
        /\ trends.result.total_videos = 0
        /\ "top_performing_day" \in DOMAIN trends.result
        /\ IsNone(trends.result.top_performing_day)

\* C24: analyze_trends leaves the collection passed to it as it was: the
\* same columns and the same number of rows, and no row has a field that is
\* not one of the columns it had before the call.
C24_CollectionUnchanged ==
    trends.made =>
        /\ videos_df.columns = trends.columns
        /\ Len(videos_df.rows) = trends.rows
        /\ \A i \in 1 .. Len(videos_df.rows) :
              DOMAIN videos_df.rows[i] = Range(trends.columns)

-----------------------------------------------------------------------------
(* Properties of the channel bonus.                                        *)

\* A channel record with a positive subscriber_count was supplied to the
\* call.
ScoredWithSubscribers ==
    /\ Scored
    /\ Truthy(channel)
    /\ "subscriber_count" \in DOMAIN channel
    /\ channel.subscriber_count > 0

\* C27: with subscriber_count > 0, channel_performance_ratio is
\* view_count / max(0.1 x subscriber_count, 1); the bonus added is
\* min(20, (ratio - 1) x 5) when the ratio is > 2 and nothing otherwise; an
\* added bonus is greater than 5 and at most 20.
C27_ChannelBonus ==
    ScoredWithSubscribers =>
        LET v      == video.view_count
            tenths == IMax(channel.subscriber_count, 10)
            ratio  == call.locals.channel_performance_ratio
            bonus  == call.locals.bonus
        IN  /\ REq(RMul(ratio, RInt(tenths)), RInt(10 * v))
            /\ IF 10 * v > 2 * tenths
               THEN /\ REq(bonus, RMin(RInt(20),
                                       Rat(5 * (10 * v - tenths), tenths)))
                    /\ RLt(RInt(5), bonus)
                    /\ RLe(bonus, RInt(20))
               ELSE bonus = RInt(0)
            /\ ~(RLt(RInt(0), bonus) /\ RLe(bonus, RInt(5)))

\* C27 witness: a video with just over twice the expected views got a bonus
\* just over 5.
C27_Witness ==
    /\ ScoredWithSubscribers
    /\ video.view_count = 501
    /\ channel.subscriber_count = 2500
    /\ call.locals.bonus = Rat(502, 100)

-----------------------------------------------------------------------------
(* Properties of predict_viral_potential.                                  *)

\* A prediction was made of a video at least an hour old.
PredictedWithScore == Predicted /\ call.hours >= 1

\* The recommendation of a score, by its band.
RecommendationBand(score) ==
    CASE score >= 80 -> "very_high"
      [] score >= 60 /\ score < 80 -> "good"
      [] score >= 40 /\ score < 60 -> "average"
      [] OTHER -> "slow"

\* The early-growth condition, on the counts and the hours of the call.
EarlyGrowth == call.hours <= 6 /\ video.view_count > 1000 * call.hours

ReachablePotentialScores == {0, 15, 20, 30, 35, 40, 50, 55, 70, 85, 100}

\* C30: with the default thresholds a prediction that grants the early-growth
\* bonus has the full 40 points of the projected-views band and a score of at
\* least 70; every score is one of 0, 15, 20, 30, 35, 40, 50, 55, 70, 85,
\* 100; and the clamp at 100 leaves the sum of the bands as it is.
C30_EarlyBonusImpliesFullViews ==
    (PredictedWithScore /\ thresholds = VIRAL_THRESHOLDS) =>
        /\ EarlyGrowth =>
              /\ call.locals.early_bonus = 30
              /\ call.locals.views_band = 40
              /\ call.result.viral_potential_score >= 70
        /\ call.result.viral_potential_score \in ReachablePotentialScores
        /\ call.result.viral_potential_score = call.locals.unclamped

\* C30 witness: the early-growth bonus was granted at the sixth hour to a
\* video with fewer than 10000 views, and the score is 70.
C30_Witness ==
    /\ PredictedWithScore
    /\ thresholds = VIRAL_THRESHOLDS
    /\ EarlyGrowth
    /\ call.hours = 6
    /\ video.view_count < 10000
    /\ call.result.viral_potential_score = 70

-----------------------------------------------------------------------------
(* Properties of ViralAnalyzer instances.                                  *)

\* C25: after one instance's thresholds were changed, every other instance
\* scores every video as before the change, and an instance created after
\* the change scores with the configured thresholds.
C25_ThresholdsPrivate ==
    change.made =>
        \A j \in (1 .. Len(analyzers)) \ {change.by} : \A v \in InstanceVideos :
            ScoresOf(Thresholds(analyzers[j], config_thresholds), v)
              = IF j \in DOMAIN change.before
                THEN change.before[j][v]
                ELSE ScoresOf(VIRAL_THRESHOLDS, v)

-----------------------------------------------------------------------------
(* Properties of the dashboard.                                            *)

\* The orders in which a list can be arranged.
Reorderings(list) ==
    { [k \in 1 .. Len(list) |-> list[f[k]]] :
        f \in { g \in [1 .. Len(list) -> 1 .. Len(list)] :
                  \A j, k \in 1 .. Len(list) : j # k => g[j] # g[k] } }

\* C26: in a search run that found videos, every video whose scoring does
\* not fail has its viral_analysis, whatever happened to the others, and
\* the keyword and trend analysis of the batch is produced.
C26_FailureIsolated ==
    (run.kind = "search" /\ run.found # <<>>) =>
        /\ run.outcome = "completed"
        /\ \A i \in 1 .. Len(search_results) :
              Parseable(search_results[i]) =>
                  "viral_analysis" \in DOMAIN search_results[i]
        /\ DOMAIN analysis_results = {"keyword_analysis", "trend_analysis"}
        /\ analysis_results.keyword_analysis.total_videos_analyzed
             \in { Len(run.found),
                   Cardinality({i \in 1 .. Len(run.found) :
                                   Parseable(run.found[i])}) }

\* C28: after any sequence of runs every stored video carries a
\* viral_analysis, the stored analysis results are those of the stored
\* videos (none when no videos are stored), and a search that found nothing
\* left both as they were.
C28_StoredResultsAgree ==
    /\ \A i \in 1 .. Len(search_results) :
          "viral_analysis" \in DOMAIN search_results[i]
    /\ IF search_results = <<>>
       THEN DOMAIN analysis_results = {}
       ELSE /\ DOMAIN analysis_results = {"keyword_analysis", "trend_analysis"}
            /\ \E list \in Reorderings(search_results) :
                  analysis_results \in AnalysesOf(kwa, list)
    /\ (run.kind = "search" /\ run.found = <<>>) =>
          /\ search_results = run.before.search_results
          /\ analysis_results = run.before.analysis_results

-----------------------------------------------------------------------------
(* Properties of search_videos.                                            *)

\* What holds of the last page request and of the hand-over to the detail
\* lookup.
PagingSafe ==
    /\ paging.request.made =>
          /\ paging.request.maxResults \in 1 .. 50
          /\ paging.request.maxResults
               <= paging.max_results - paging.request.collected
          /\ ( \/ ~paging.request.nextPageToken
               \/ paging.all_video_ids >= paging.max_results )
             => paging.pc # "while"
    /\ paging.outcome = "returned" =>
          /\ paging.passed <= paging.max_results
          /\ paging.passed <= paging.all_video_ids

\* C29: every page request asks for 1 to 50 results and for no more than
\* max_results less the IDs collected; the loop is left at the first page
\* without a nextPageToken or once max_results IDs are collected; at most
\* max_results IDs reach the detail lookup; and the call ends, given that
\* the API answers with no more than MaxEmptyPages empty pages in a row.
C29_PaginationLoop == []PagingSafe /\ <>(paging.pc = "done")

\* C29 witness: a call for 51 results asked for a second page of one result
\* after a full first page, and returned with 51 IDs handed over.
C29_Witness ==
    /\ paging.pc = "done"
    /\ paging.outcome = "returned"
    /\ paging.max_results = 51
    /\ paging.request.made
    /\ paging.request.collected = 50
    /\ paging.request.maxResults = 1
    /\ paging.passed = 51

=============================================================================
